----------------------------- MODULE ParserProof -----------------------------
(***************************************************************************)
(* The inductive invariant of the byte parser: its state remembers of the  *)
(* bytes so far what Parser says of them by position, without states.      *)
(* TerminalPartsProof draws the conclusions.                               *)
(***************************************************************************)
EXTENDS TerminalParts, FiniteSetTheorems, SequenceTheorems, WellFoundedInduction, TLAPS

-----------------------------------------------------------------------------
(***************************************************************************)
(* Sets of natural numbers: the form that induction takes here.            *)
(***************************************************************************)
\* A set of natural numbers has a least member, a bounded one a greatest.
LEMMA LeastNat ==
    ASSUME NEW S \in SUBSET Nat, S # {}
    PROVE  \E m \in S : \A k \in S : m =< k
<1> DEFINE R == {ss \in Nat \X Nat : ss[1] < ss[2]}
<1>1. IsWellFoundedOn(R, Nat)
  BY NatLessThanWellFounded, Zenon DEF OpToRel
<1>3. \A k, m \in Nat : k < m => <<k, m>> \in R
  OBVIOUS
<1> HIDE DEF R
<1>2. PICK m \in S : \A k \in S : ~(<<k, m>> \in R)
  BY <1>1, WFMin, Zenon
<1>4. \A k \in S : ~(k < m)
  BY <1>2, <1>3, Zenon
<1> QED
  BY <1>4

\* A bounded set of natural numbers has a greatest member.
LEMMA GreatestNat ==
    ASSUME NEW S \in SUBSET Nat, S # {}, NEW n \in Nat, \A k \in S : k =< n
    PROVE  \E m \in S : \A k \in S : m >= k
<1> DEFINE T == {d \in Nat : \E k \in S : d = n - k}
<1>1. T \in SUBSET Nat /\ \A k \in S : n - k \in T
  OBVIOUS
<1>2. PICK t \in T : \A u \in T : t =< u
  BY <1>1, LeastNat
<1>3. PICK m \in S : t = n - m
  OBVIOUS
<1>4. \A k \in S : n - m =< n - k
  BY <1>1, <1>2, <1>3
<1> QED
  BY <1>4

\* What holds at a, and from each number up to b on to the next, holds up to b.
LEMMA UpFrom ==
    ASSUME NEW a \in Nat, NEW b \in Nat, NEW S, a \in S,
           \A k \in a .. b - 1 : k \in S => k + 1 \in S
    PROVE  \A k \in a .. b : k \in S
<1> SUFFICES ASSUME NEW c \in a .. b, c \notin S PROVE FALSE
  OBVIOUS
<1> DEFINE Missing == {k \in a .. b : k \notin S}
<1>1. Missing \in SUBSET Nat /\ Missing # {}
  OBVIOUS
<1>2. PICK m \in Missing : \A k \in Missing : m =< k
  <2> HIDE DEF Missing
  <2> QED
    BY <1>1, LeastNat
<1>3. m \in a + 1 .. b /\ m \notin S
  BY <1>2
<1>4. m - 1 \in a .. b - 1 /\ m - 1 \in a .. b
  BY <1>3
<1>5. m - 1 \in S
  <2> SUFFICES ASSUME m - 1 \notin S PROVE FALSE
    OBVIOUS
  <2>1. m - 1 \in Missing
    BY <1>4
  <2> QED
    BY <1>2, <1>3, <2>1
<1>6. m - 1 + 1 \in S
  BY <1>4, <1>5
<1> QED
  BY <1>3, <1>6

\* The least of some numbers.
LEMMA MinIs ==
    ASSUME NEW S \in SUBSET Int, NEW m \in S, \A k \in S : m =< k
    PROVE  Parser!Min(S) = m
<1>1. \A x \in S : (\A y \in S : x =< y) => x = m
  OBVIOUS
<1> QED
  BY <1>1, Zenon DEF Parser!Min

\* A set of numbers that is not empty has its least among its members.
LEMMA MinOf ==
    ASSUME NEW S \in SUBSET Nat, S # {}
    PROVE  Parser!Min(S) \in S /\ \A k \in S : Parser!Min(S) =< k
<1>1. PICK m \in S : \A k \in S : m =< k
  BY LeastNat
<1>2. S \in SUBSET Int
  OBVIOUS
<1>3. Parser!Min(S) = m
  BY <1>1, <1>2, MinIs, Zenon
<1> QED
  BY <1>1, <1>3

\* The larger of two numbers.
LEMMA MaxOfTwo ==
    ASSUME NEW a \in Int, NEW b \in Int
    PROVE  Parser!Max({a, b}) = IF a >= b THEN a ELSE b
<1>1. CASE a >= b
  <2>1. \E x \in {a, b} : \A y \in {a, b} : x >= y
    BY <1>1
  <2>2. PICK x \in {a, b} : x = Parser!Max({a, b}) /\ \A y \in {a, b} : x >= y
    BY <2>1, Zenon DEF Parser!Max
  <2> QED
    BY <1>1, <2>2
<1>2. CASE ~(a >= b)
  <2>1. \E x \in {a, b} : \A y \in {a, b} : x >= y
    BY <1>2
  <2>2. PICK x \in {a, b} : x = Parser!Max({a, b}) /\ \A y \in {a, b} : x >= y
    BY <2>1, Zenon DEF Parser!Max
  <2> QED
    BY <1>2, <2>2
<1> QED
  BY <1>1, <1>2

-----------------------------------------------------------------------------
(***************************************************************************)
(* Places in an input: what byte j is follows from the bytes before it.    *)
(***************************************************************************)
\* What the constants of the parser are.
LEMMA ParserConstants ==
    /\ MaxParams \in Nat /\ 2 =< MaxParams /\ ValueLimit \in Nat /\ 1 =< ValueLimit
    /\ \A b \in Parser!Bytes : b \in Nat /\ b =< 255
<1>1. \A input \in Inputs : input.bytes \subseteq 0 .. 255
  BY PartsAssumption DEF Parser!ParserAssumption
<1>2. \A b \in 0 .. 255 : b \in Nat /\ b =< 255
  OBVIOUS
<1>3. \A b \in Parser!Bytes : b \in Nat /\ b =< 255
  BY <1>1, <1>2, Zenon DEF Parser!Bytes
<1> QED
  BY <1>3, PartsAssumption DEF Parser!ParserAssumption

\* The inputs s and t have their first n bytes in common.
AgreeTo(s, t, n) == \A k \in 1 .. n : t[k] = s[k]

\* A string that is open is open whatever comes after.
LEMMA PayloadAgrees ==
    ASSUME NEW n \in Nat, NEW s, NEW t, AgreeTo(s, t, n), NEW j \in 1 .. n + 1,
           Parser!Payload(s, j)
    PROVE  Parser!Payload(t, j)
<1>1. PICK i \in 1 .. j - 2 :
        /\ s[i] = 27 /\ s[i + 1] = 93
        /\ \A k \in i + 2 .. j - 1 : ~(IF k > i + 2 /\ s[k - 1] = 27 THEN s[k] = 92 ELSE s[k] = 7)
  BY DEF Parser!Payload, Parser!IsPair, Parser!Closes, Parser!ESC, Parser!RightBracket,
         Parser!Backslash, Parser!BEL
<1>2. i \in 1 .. n /\ i + 1 \in 1 .. n
  OBVIOUS
<1>3. t[i] = 27 /\ t[i + 1] = 93
  BY <1>1, <1>2 DEF AgreeTo
<1>4. ASSUME NEW k \in i + 2 .. j - 1
      PROVE  ~Parser!Closes(t, i, k)
  <2>1. k \in 1 .. n /\ k - 1 \in 1 .. n
    OBVIOUS
  <2>2. t[k] = s[k] /\ t[k - 1] = s[k - 1]
    BY <2>1 DEF AgreeTo
  <2> QED
    BY <1>1, <2>2 DEF Parser!Closes, Parser!ESC, Parser!Backslash, Parser!BEL
<1> QED
  BY <1>3, <1>4 DEF Parser!Payload, Parser!IsPair, Parser!ESC, Parser!RightBracket

\* Two inputs that begin alike are read alike as far as they do.
LEMMA PlacesAgree ==
    ASSUME NEW n \in Nat, NEW s, NEW t, AgreeTo(s, t, n), NEW j \in 1 .. n + 1
    PROVE  /\ Parser!Payload(s, j) <=> Parser!Payload(t, j)
           /\ Parser!AfterEsc(s, j) <=> Parser!AfterEsc(t, j)
           /\ \A i : Parser!CsiFrom(s, i, j) <=> Parser!CsiFrom(t, i, j)
           /\ Parser!InCsi(s, j) <=> Parser!InCsi(t, j)
           /\ j =< n => (Parser!Text(s, j) <=> Parser!Text(t, j))
           /\ \A i \in 1 .. n : Parser!Awaits(s, i, j) <=> Parser!Awaits(t, i, j)
<1>0. AgreeTo(t, s, n)
  BY DEF AgreeTo
<1>1. ASSUME NEW k \in 1 .. n + 1
      PROVE  Parser!Payload(s, k) <=> Parser!Payload(t, k)
  BY <1>0, PayloadAgrees
<1>2. ASSUME NEW k \in 1 .. n + 1
      PROVE  Parser!AfterEsc(s, k) <=> Parser!AfterEsc(t, k)
  <2>1. k > 1 => t[k - 1] = s[k - 1]
    BY DEF AgreeTo
  <2> QED
    BY <1>1, <2>1 DEF Parser!AfterEsc
<1>3. ASSUME NEW k \in 1 .. n + 1, NEW i
      PROVE  Parser!CsiFrom(s, i, k) <=> Parser!CsiFrom(t, i, k)
  <2>1. CASE i \in 2 .. k - 1
    <3>1. i \in 1 .. n /\ i \in 1 .. n + 1
      BY <2>1
    <3>2. t[i] = s[i]
      BY <3>1 DEF AgreeTo
    <3>3. \A l \in i + 1 .. k - 1 : t[l] = s[l]
      BY <3>1 DEF AgreeTo
    <3>4. Parser!AfterEsc(s, i) <=> Parser!AfterEsc(t, i)
      BY <1>2, <3>1
    <3> QED
      BY <3>2, <3>3, <3>4, Zenon DEF Parser!CsiFrom
  <2>2. CASE i \notin 2 .. k - 1
    BY <2>2, Zenon DEF Parser!CsiFrom
  <2> QED
    BY <2>1, <2>2
<1>4. ASSUME NEW k \in 1 .. n + 1
      PROVE  Parser!InCsi(s, k) <=> Parser!InCsi(t, k)
  BY <1>3, Zenon DEF Parser!InCsi
<1>5. ASSUME NEW k \in 1 .. n
      PROVE  Parser!Text(s, k) <=> Parser!Text(t, k)
  <2>1. k \in 1 .. n + 1 /\ t[k] = s[k]
    BY DEF AgreeTo
  <2> QED
    BY <1>1, <1>2, <1>4, <2>1, Zenon DEF Parser!Text
<1>6. ASSUME NEW i \in 1 .. n
      PROVE  Parser!Awaits(s, i, j) <=> Parser!Awaits(t, i, j)
  <2>1. t[i] = s[i]
    BY DEF AgreeTo
  <2>2. \A k \in i + 1 .. j - 1 : t[k] = s[k]
    BY DEF AgreeTo
  <2> QED
    BY <1>5, <2>1, <2>2, Zenon DEF Parser!Awaits
<1>7. j =< n => j \in 1 .. n
  OBVIOUS
<1> QED
  BY <1>1, <1>2, <1>3, <1>4, <1>5, <1>6, <1>7, Zenon

\* A control sequence begins with its bracket and ends with ESC or its final byte.
LEMMA CsiGrows ==
    ASSUME NEW s, NEW j \in Nat, j >= 1, NEW i
    PROVE  Parser!CsiFrom(s, i, j + 1) <=>
             \/ i = j /\ j >= 2 /\ Parser!AfterEsc(s, j) /\ s[j] = 91
             \/ Parser!CsiFrom(s, i, j) /\ s[j] # 27 /\ s[j] \notin Parser!Finals
<1>1. CASE i = j
  <2>1. ~Parser!CsiFrom(s, i, j)
    BY <1>1 DEF Parser!CsiFrom
  <2>2. i + 1 .. j + 1 - 1 = {} /\ (i \in 2 .. j + 1 - 1 <=> j >= 2)
    BY <1>1
  <2> QED
    BY <1>1, <2>1, <2>2 DEF Parser!CsiFrom, Parser!LeftBracket
<1>2. CASE i \in 2 .. j - 1
  <2>1. i \in 2 .. j + 1 - 1 /\ i # j
    BY <1>2
  <2>2. \A k : k \in i + 1 .. j + 1 - 1 <=> k \in i + 1 .. j - 1 \/ k = j
    BY <1>2
  <2> QED
    BY <1>2, <2>1, <2>2 DEF Parser!CsiFrom, Parser!ESC
<1>3. CASE i # j /\ i \notin 2 .. j - 1
  <2>1. i \notin 2 .. j + 1 - 1
    BY <1>3
  <2> QED
    BY <1>3, <2>1 DEF Parser!CsiFrom
<1> QED
  BY <1>1, <1>2, <1>3

\* At most one bracket begins the sequence that a byte belongs to.
LEMMA OneBracket ==
    ASSUME NEW s, NEW j \in Nat, NEW i, NEW h, Parser!CsiFrom(s, i, j), Parser!CsiFrom(s, h, j)
    PROVE  h = i
<1>1. ASSUME NEW a, NEW b, Parser!CsiFrom(s, a, j), Parser!CsiFrom(s, b, j), a < b
      PROVE  FALSE
  <2>1. a \in 2 .. j - 1 /\ b \in 2 .. j - 1 /\ s[a] = 91 /\ s[b - 1] = 27
    BY <1>1, Zenon DEF Parser!CsiFrom, Parser!AfterEsc, Parser!ESC, Parser!LeftBracket
  <2>2. \A k \in a + 1 .. j - 1 : s[k] # 27
    BY <1>1, Zenon DEF Parser!CsiFrom, Parser!ESC
  <2>3. b - 1 = a \/ b - 1 \in a + 1 .. j - 1
    BY <1>1, <2>1
  <2> QED
    BY <2>1, <2>2, <2>3
<1>2. i \in Int /\ h \in Int
  BY DEF Parser!CsiFrom
<1>3. i < h \/ h < i \/ i = h
  BY <1>2
<1> QED
  BY <1>1, <1>3, Zenon

\* A character goes on while continuation bytes come.
LEMMA AwaitsGrows ==
    ASSUME NEW s, NEW j \in Nat, j >= 1, NEW i \in 1 .. j
    PROVE  Parser!Awaits(s, i, j + 1) <=>
             \/ i = j /\ Parser!Text(s, j) /\ Parser!Following(s[j]) >= 1
             \/ /\ i < j /\ Parser!Awaits(s, i, j) /\ Parser!IsContinuation(s[j])
                /\ Parser!Following(s[i]) >= j + 1 - i
<1>0. Parser!Following(s[i]) \in Int
  BY DEF Parser!Following
<1>1. CASE i = j
  <2>1. i + 1 .. j + 1 - 1 = {} /\ j + 1 - i = 1 /\ i < j + 1
    BY <1>1
  <2> QED
    BY <1>1, <2>1 DEF Parser!Awaits
<1>2. CASE i < j
  <2>1. \A k : k \in i + 1 .. j + 1 - 1 <=> k \in i + 1 .. j - 1 \/ k = j
    BY <1>2
  <2>2. i < j + 1 /\ (Parser!Following(s[i]) >= j + 1 - i => Parser!Following(s[i]) >= j - i)
    BY <1>0, <1>2
  <2>3. i # j
    BY <1>2
  <2> QED
    BY <1>2, <2>1, <2>2, <2>3 DEF Parser!Awaits
<1> QED
  BY <1>1, <1>2

-----------------------------------------------------------------------------
(***************************************************************************)
(* Numbers in a control sequence.                                          *)
(***************************************************************************)
\* The array counts separators as far as it has room.
Separators(s, i, k) == {m \in i + 1 .. k - 1 : s[m] = 59}

\* The slot of a byte is one more than the separators before it, if the array has room.
LEMMA SlotIs ==
    ASSUME NEW s, NEW i \in Nat, NEW k \in Nat
    PROVE  /\ Cardinality(Separators(s, i, k)) \in Nat /\ IsFiniteSet(Separators(s, i, k))
           /\ Parser!Slot(s, i, k) =
                IF 1 + Cardinality(Separators(s, i, k)) =< MaxParams
                THEN 1 + Cardinality(Separators(s, i, k)) ELSE MaxParams
<1> DEFINE S == Separators(s, i, k)
<1>1. IsFiniteSet(S)
  <2>1. IsFiniteSet(i + 1 .. k - 1)
    BY FS_Interval
  <2> QED
    BY <2>1, FS_Subset DEF Separators
<1>2. PICK c \in Nat : c = Cardinality(S)
  BY <1>1, FS_CardinalityType
<1>3. Parser!Cardinality(S) = c
  BY <1>2 DEF Parser!Cardinality, Cardinality
<1>4. Parser!Slot(s, i, k) = Parser!Min({1 + c, MaxParams})
  BY <1>3, Zenon DEF Parser!Slot, Separators, Parser!Semicolon
<1>5. MaxParams \in Nat
  BY ParserConstants
<1>6. CASE 1 + c =< MaxParams
  <2>1. Parser!Min({1 + c, MaxParams}) = 1 + c
    <3>1. {1 + c, MaxParams} \in SUBSET Int /\ 1 + c \in {1 + c, MaxParams}
      BY <1>5
    <3>2. \A x \in {1 + c, MaxParams} : 1 + c =< x
      BY <1>5, <1>6
    <3> QED
      BY <3>1, <3>2, MinIs, Zenon
  <2> QED
    BY <1>1, <1>2, <1>4, <1>6, <2>1
<1>7. CASE ~(1 + c =< MaxParams)
  <2>1. Parser!Min({1 + c, MaxParams}) = MaxParams
    <3>1. {1 + c, MaxParams} \in SUBSET Int /\ MaxParams \in {1 + c, MaxParams}
      BY <1>5
    <3>2. \A x \in {1 + c, MaxParams} : MaxParams =< x
      BY <1>5, <1>7
    <3> QED
      BY <3>1, <3>2, MinIs, Zenon
  <2> QED
    BY <1>1, <1>2, <1>4, <1>7, <2>1
<1> QED
  BY <1>6, <1>7

\* A separator starts the next slot, if there is one.
LEMMA SlotGrows ==
    ASSUME NEW s, NEW i \in Nat
    PROVE  /\ Parser!Slot(s, i, i + 1) = 1
           /\ \A k \in Nat : k > i =>
                /\ Parser!Slot(s, i, k) \in 1 .. MaxParams
                /\ Parser!Slot(s, i, k + 1) =
                     IF s[k] = 59 /\ Parser!Slot(s, i, k) < MaxParams
                     THEN Parser!Slot(s, i, k) + 1 ELSE Parser!Slot(s, i, k)
<1>0. MaxParams \in Nat /\ 2 =< MaxParams
  BY ParserConstants
<1>1. Parser!Slot(s, i, i + 1) = 1
  <2>1. Separators(s, i, i + 1) = {}
    BY DEF Separators
  <2>2. Cardinality(Separators(s, i, i + 1)) = 0
    BY <2>1, FS_EmptySet
  <2>3. i + 1 \in Nat
    OBVIOUS
  <2> QED
    BY <1>0, <2>2, <2>3, SlotIs
<1>2. ASSUME NEW k \in Nat, k > i
      PROVE  /\ Parser!Slot(s, i, k) \in 1 .. MaxParams
             /\ Parser!Slot(s, i, k + 1) =
                  IF s[k] = 59 /\ Parser!Slot(s, i, k) < MaxParams
                  THEN Parser!Slot(s, i, k) + 1 ELSE Parser!Slot(s, i, k)
  <2>1. PICK S : S = Separators(s, i, k)
    OBVIOUS
  <2>2. PICK l \in Nat : l = k + 1
    OBVIOUS
  <2>3. PICK T : T = Separators(s, i, l)
    OBVIOUS
  <2>4. Cardinality(S) \in Nat /\ IsFiniteSet(S) /\ Cardinality(T) \in Nat
    BY <2>1, <2>3, SlotIs
  <2>5. /\ Parser!Slot(s, i, k) = IF 1 + Cardinality(S) =< MaxParams
                                  THEN 1 + Cardinality(S) ELSE MaxParams
        /\ Parser!Slot(s, i, l) = IF 1 + Cardinality(T) =< MaxParams
                                  THEN 1 + Cardinality(T) ELSE MaxParams
    BY <2>1, <2>3, SlotIs, Zenon
  <2>6. CASE s[k] = 59
    <3>1. T = S \cup {k} /\ k \notin S
      BY <1>2, <2>1, <2>2, <2>3, <2>6 DEF Separators
    <3>2. Cardinality(T) = Cardinality(S) + 1
      BY <2>4, <3>1, FS_AddElement, Zenon
    <3> QED
      BY <1>0, <2>2, <2>4, <2>5, <2>6, <3>2
  <2>7. CASE s[k] # 59
    <3>1. T = S
      BY <1>2, <2>1, <2>2, <2>3, <2>7 DEF Separators
    <3> QED
      BY <1>0, <2>2, <2>4, <2>5, <2>7, <3>1
  <2> QED
    BY <2>6, <2>7
<1> QED
  BY <1>1, <1>2

\* What the digits of a slot spell, byte by byte.
Reads(v, s, i, j, n) ==
    /\ v[i] = 0
    /\ \A k \in i .. j - 1 : v[k] \in Nat
    /\ \A k \in i + 1 .. j - 1 :
         v[k] = IF s[k] \in Parser!Digits /\ Parser!Slot(s, i, k) = n
                THEN v[k - 1] * 10 + (s[k] - 48) ELSE v[k - 1]

\* A number is read one byte at a time.
LEMMA NumberIs ==
    ASSUME NEW s, NEW i \in Nat, NEW j \in Nat, i < j, NEW n
    PROVE  Reads(Parser!Number(s, i, j, n), s, i, j, n)
<1> DEFINE Counts(k) == s[k] \in Parser!Digits /\ Parser!Slot(s, i, k) = n
           After(k, v) == IF Counts(k) THEN v * 10 + (s[k] - 48) ELSE v
           Good(m, f) == f = [k \in i .. m - 1 |-> IF k = i THEN 0 ELSE After(k, f[k - 1])]
           S == {m \in i + 1 .. j : \E f : Good(m, f)}
<1>0. i + 1 \in Nat /\ i + 1 \in i + 1 .. j
  OBVIOUS
<1>1. i + 1 \in S
  <2> DEFINE g == [k \in i .. i + 1 - 1 |-> 0]
  <2>1. Good(i + 1, g)
    OBVIOUS
  <2> HIDE DEF g, Good
  <2>2. \E f : Good(i + 1, f)
    BY <2>1
  <2> QED
    BY <1>0, <2>2
<1>2. ASSUME NEW m \in i + 1 .. j - 1, m \in S
      PROVE  m + 1 \in S
  <2>1. PICK g : Good(m, g)
    BY <1>2
  <2>0. m \in Nat /\ i < m /\ m - 1 \in i .. m - 1
    OBVIOUS
  <2> DEFINE f == [k \in i .. m + 1 - 1 |-> IF k = m THEN After(m, g[m - 1]) ELSE g[k]]
  <2>2. \A k \in i .. m - 1 : f[k] = g[k]
    OBVIOUS
  <2>3. \A k \in i .. m - 1 : g[k] = IF k = i THEN 0 ELSE After(k, g[k - 1])
    BY <2>1, Zenon
  <2>5. f = [k \in i .. m + 1 - 1 |-> f[k]]
    OBVIOUS
  <2>6. f[m] = After(m, g[m - 1])
    BY <2>0
  <2> HIDE DEF f, After
  <2>4. \A k \in i .. m + 1 - 1 : f[k] = IF k = i THEN 0 ELSE After(k, f[k - 1])
    <3> SUFFICES ASSUME NEW k \in i .. m + 1 - 1
                 PROVE  f[k] = IF k = i THEN 0 ELSE After(k, f[k - 1])
      OBVIOUS
    <3>1. CASE k = m
      <4>1. k # i /\ k - 1 \in i .. m - 1 /\ k - 1 = m - 1
        BY <2>0, <3>1
      <4>2. f[k - 1] = g[m - 1]
        BY <2>2, <4>1, Zenon
      <4> QED
        BY <2>6, <3>1, <4>1, <4>2
    <3>2. CASE k = i
      <4>1. k \in i .. m - 1
        BY <2>0, <3>2
      <4> QED
        BY <2>2, <2>3, <3>2, <4>1
    <3>3. CASE k # i /\ k # m
      <4>1. k \in i .. m - 1 /\ k - 1 \in i .. m - 1
        BY <2>0, <3>3
      <4>2. f[k] = g[k] /\ f[k - 1] = g[k - 1]
        BY <2>2, <4>1, Zenon
      <4> QED
        BY <2>3, <3>3, <4>1, <4>2
    <3> QED
      BY <3>1, <3>2, <3>3
  <2>7. Good(m + 1, f)
    <3>1. PICK A : A = i .. m + 1 - 1
      OBVIOUS
    <3>2. f = [k \in A |-> f[k]] /\ \A k \in A : f[k] = IF k = i THEN 0 ELSE After(k, f[k - 1])
      BY <2>4, <2>5, <3>1
    <3>3. [k \in A |-> f[k]] = [k \in A |-> IF k = i THEN 0 ELSE After(k, f[k - 1])]
      BY <3>2, Zenon
    <3>4. PICK Y : Y = [k \in A |-> IF k = i THEN 0 ELSE After(k, f[k - 1])]
      OBVIOUS
    <3>5. f = Y
      BY <3>2, <3>3, <3>4, Zenon
    <3> QED
      <4>1. f = [k \in i .. m + 1 - 1 |-> IF k = i THEN 0 ELSE After(k, f[k - 1])]
        BY <3>1, <3>4, <3>5
      <4> QED
        BY <4>1
  <2> HIDE DEF Good
  <2>8. \E h : Good(m + 1, h)
    BY <2>7
  <2>9. m + 1 \in i + 1 .. j
    OBVIOUS
  <2> QED
    BY <2>8, <2>9
<1>3. j \in S
  <2> HIDE DEF S
  <2>1. \A k \in i + 1 .. j : k \in S
    BY <1>0, <1>1, <1>2, UpFrom
  <2> QED
    BY <2>1
<1>4. PICK f : Good(j, f)
  BY <1>3
<1>5. Good(j, Parser!Number(s, i, j, n))
  <2>1. Parser!Number(s, i, j, n) = CHOOSE g : Good(j, g)
    BY DEF Parser!Number
  <2> QED
    BY <1>4, <2>1, Zenon
<1> DEFINE v == Parser!Number(s, i, j, n)
<1>6. \A k \in i .. j - 1 : v[k] = IF k = i THEN 0 ELSE After(k, v[k - 1])
  BY <1>5, Zenon
<1> HIDE DEF v, Good, S
<1>7. v[i] = 0
  BY <1>6
<1>8. \A k \in i + 1 .. j - 1 : v[k] = After(k, v[k - 1])
  BY <1>6
<1>9. \A k \in i .. j - 1 : v[k] \in Nat
  <2> DEFINE D == {k \in i .. j - 1 : v[k] \in Nat}
  <2>1. i \in D
    BY <1>7
  <2>2. \A k \in i .. j - 1 - 1 : k \in D => k + 1 \in D
    <3> SUFFICES ASSUME NEW k \in i .. j - 1 - 1, k \in D PROVE k + 1 \in D
      OBVIOUS
    <3>1. PICK l \in i + 1 .. j - 1 : l = k + 1 /\ l - 1 = k
      OBVIOUS
    <3>2. v[k] \in Nat
      OBVIOUS
    <3>3. v[l] = After(l, v[k])
      BY <1>8, <3>1
    <3>4. s[l] \in Parser!Digits => s[l] \in Nat /\ s[l] >= 48
      BY DEF Parser!Digits
    <3>5. v[l] \in Nat
      BY <3>2, <3>3, <3>4
    <3> QED
      BY <3>1, <3>5
  <2>3. \A k \in i .. j - 1 : k \in D
    <3>1. j - 1 \in Nat
      OBVIOUS
    <3> HIDE DEF D
    <3> QED
      BY <2>1, <2>2, <3>1, UpFrom
  <2> QED
    BY <2>3
<1> QED
  BY <1>7, <1>8, <1>9, Zenon DEF v, After, Reads

\* Slots and numbers depend on the bytes before.
LEMMA SlotAgrees ==
    ASSUME NEW m \in Nat, NEW s, NEW t, AgreeTo(s, t, m), NEW i \in Nat, NEW k \in 1 .. m + 1
    PROVE  Parser!Slot(t, i, k) = Parser!Slot(s, i, k)
<1>1. Separators(t, i, k) = Separators(s, i, k)
  BY DEF Separators, AgreeTo
<1>2. k \in Nat
  OBVIOUS
<1>3. PICK c : c = Cardinality(Separators(s, i, k)) /\ c = Cardinality(Separators(t, i, k))
  BY <1>1
<1>4. Parser!Slot(s, i, k) = IF 1 + c =< MaxParams THEN 1 + c ELSE MaxParams
  BY <1>2, <1>3, SlotIs, Zenon
<1>5. Parser!Slot(t, i, k) = IF 1 + c =< MaxParams THEN 1 + c ELSE MaxParams
  BY <1>2, <1>3, SlotIs, Zenon
<1> QED
  BY <1>4, <1>5

\* So do the numbers that the digits make, as far as both have been read.
LEMMA NumberAgrees ==
    ASSUME NEW m \in Nat, NEW s, NEW t, AgreeTo(s, t, m), NEW i \in 1 .. m, NEW n,
           NEW j \in m + 1 .. m + 2
    PROVE  \A k \in i .. m : Parser!Number(t, i, j, n)[k] = Parser!Number(s, i, m + 1, n)[k]
<1> DEFINE v == Parser!Number(s, i, m + 1, n)
           w == Parser!Number(t, i, j, n)
           D == {k \in i .. m : w[k] = v[k]}
<1>0. i \in Nat /\ m + 1 \in Nat /\ j \in Nat /\ i < m + 1 /\ i < j /\ i =< m
  OBVIOUS
<1>r. Reads(v, s, i, m + 1, n) /\ Reads(w, t, i, j, n)
  BY <1>0, NumberIs, Zenon
<1>1. v[i] = 0 /\ w[i] = 0
  <2> HIDE DEF v, w
  <2> QED
    BY <1>r DEF Reads
<1>2. \A k \in i + 1 .. m :
        /\ v[k] = IF s[k] \in Parser!Digits /\ Parser!Slot(s, i, k) = n
                  THEN v[k - 1] * 10 + (s[k] - 48) ELSE v[k - 1]
        /\ w[k] = IF t[k] \in Parser!Digits /\ Parser!Slot(t, i, k) = n
                  THEN w[k - 1] * 10 + (t[k] - 48) ELSE w[k - 1]
  <2>1. \A k \in i + 1 .. m : k \in i + 1 .. m + 1 - 1 /\ k \in i + 1 .. j - 1
    BY <1>0
  <2> HIDE DEF v, w
  <2> QED
    BY <1>r, <2>1 DEF Reads
<1>3. \A k \in i + 1 .. m : t[k] = s[k] /\ Parser!Slot(t, i, k) = Parser!Slot(s, i, k)
  <2> SUFFICES ASSUME NEW k \in i + 1 .. m
               PROVE  t[k] = s[k] /\ Parser!Slot(t, i, k) = Parser!Slot(s, i, k)
    OBVIOUS
  <2>1. k \in 1 .. m /\ k \in 1 .. m + 1
    BY <1>0
  <2>2. t[k] = s[k]
    BY <2>1 DEF AgreeTo
  <2> QED
    BY <1>0, <2>1, <2>2, SlotAgrees
<1> HIDE DEF v, w
<1>4. i \in D
  BY <1>0, <1>1
<1>5. \A k \in i .. m - 1 : k \in D => k + 1 \in D
  <2> SUFFICES ASSUME NEW k \in i .. m - 1, k \in D PROVE k + 1 \in D
    OBVIOUS
  <2>1. PICK l \in i + 1 .. m : l = k + 1 /\ l - 1 = k
    BY <1>0
  <2>2. w[l - 1] = v[l - 1]
    BY <2>1
  <2>3. w[l] = v[l]
    BY <1>2, <1>3, <2>2, Zenon
  <2> QED
    BY <2>1, <2>3
<1>6. \A k \in i .. m : k \in D
  <2> HIDE DEF D
  <2> QED
    BY <1>0, <1>4, <1>5, UpFrom
<1> QED
  BY <1>6 DEF v, w

\* A number stays zero without digits and below the limit without a digit that takes it
\* there.
LEMMA NumberStays ==
    ASSUME NEW m \in Nat, NEW s, NEW i \in 1 .. m, NEW n, NEW l \in Nat, 1 =< l,
           \A k \in Parser!DigitsOf(s, i, m + 1, n) : Parser!Number(s, i, m + 1, n)[k] < l
    PROVE  Parser!Number(s, i, m + 1, n)[m] < l
<1> DEFINE v == Parser!Number(s, i, m + 1, n)
           D == {k \in i .. m : v[k] < l}
<1>0. i \in Nat /\ m + 1 \in Nat /\ i < m + 1 /\ i =< m
  OBVIOUS
<1>r. Reads(v, s, i, m + 1, n)
  BY <1>0, NumberIs, Zenon
<1>1. v[i] = 0
  <2> HIDE DEF v
  <2> QED
    BY <1>r DEF Reads
<1>2. \A k \in i + 1 .. m :
        v[k] = IF s[k] \in Parser!Digits /\ Parser!Slot(s, i, k) = n
               THEN v[k - 1] * 10 + (s[k] - 48) ELSE v[k - 1]
  <2>1. \A k \in i + 1 .. m : k \in i + 1 .. m + 1 - 1
    BY <1>0
  <2> HIDE DEF v
  <2> QED
    BY <1>r, <2>1 DEF Reads
<1>3. \A k \in i + 1 .. m :
        s[k] \in Parser!Digits /\ Parser!Slot(s, i, k) = n => v[k] < l
  BY <1>0 DEF Parser!DigitsOf
<1> HIDE DEF v
<1>4. i \in D
  BY <1>0, <1>1
<1>5. \A k \in i .. m - 1 : k \in D => k + 1 \in D
  <2> SUFFICES ASSUME NEW k \in i .. m - 1, k \in D PROVE k + 1 \in D
    OBVIOUS
  <2>1. PICK h \in i + 1 .. m : h = k + 1 /\ h - 1 = k
    BY <1>0
  <2>2. v[k] < l
    OBVIOUS
  <2>3. CASE s[h] \in Parser!Digits /\ Parser!Slot(s, i, h) = n
    BY <1>3, <2>1, <2>3
  <2>4. CASE ~(s[h] \in Parser!Digits /\ Parser!Slot(s, i, h) = n)
    <3>1. v[h] = v[k]
      BY <1>2, <2>1, <2>4
    <3> QED
      BY <2>1, <2>2, <3>1
  <2> QED
    BY <2>3, <2>4
<1>6. \A k \in i .. m : k \in D
  <2> HIDE DEF D
  <2> QED
    BY <1>0, <1>4, <1>5, UpFrom
<1> QED
  BY <1>0, <1>6 DEF v

\* The digits at which a number has reached the limit, and where it ends.
Full(s, i, j, n) ==
    {k \in Parser!DigitsOf(s, i, j, n) : Parser!Number(s, i, j, n)[k] >= ValueLimit}
EndOf(s, i, j, n) == IF Full(s, i, j, n) = {} THEN j - 1 ELSE Parser!Min(Full(s, i, j, n))

\* A parameter is the number its digits have made where it ends.
LEMMA SpelledAt ==
    ASSUME NEW s, NEW i, NEW j, NEW n
    PROVE  Parser!Spelled(s, i, j, n) =
             IF Parser!DigitsOf(s, i, j, n) = {} THEN -1
             ELSE Parser!Number(s, i, j, n)[EndOf(s, i, j, n)]
  BY DEF Parser!Spelled, EndOf, Full

\* A sequence that has just begun spells nothing.
LEMMA SpelledFirst ==
    ASSUME NEW s, NEW i \in Nat, NEW n
    PROVE  Parser!Spelled(s, i, i + 1, n) = -1
<1>1. Parser!DigitsOf(s, i, i + 1, n) = {}
  BY DEF Parser!DigitsOf
<1> QED
  BY <1>1, Zenon DEF Parser!Spelled

\* What one more byte makes of the number in a slot.
WithDigit(v, b) == IF v < ValueLimit THEN v * 10 + (b - 48) ELSE v

\* A digit adds to the parameter of its slot, and nothing else changes a parameter.
LEMMA SpelledGrows ==
    ASSUME NEW m \in Nat, NEW s, NEW t, AgreeTo(s, t, m), NEW i \in 1 .. m, NEW n
    PROVE  /\ Parser!Spelled(s, i, m + 1, n) \in Nat \/ Parser!Spelled(s, i, m + 1, n) = -1
           /\ Parser!Spelled(t, i, m + 2, n) =
                IF t[m + 1] \in Parser!Digits /\ Parser!Slot(s, i, m + 1) = n
                THEN WithDigit(IF Parser!Spelled(s, i, m + 1, n) = -1 THEN 0
                               ELSE Parser!Spelled(s, i, m + 1, n), t[m + 1])
                ELSE Parser!Spelled(s, i, m + 1, n)
<1> DEFINE v == Parser!Number(s, i, m + 1, n)
           w == Parser!Number(t, i, m + 2, n)
           D == Parser!DigitsOf(s, i, m + 1, n)
           E == Parser!DigitsOf(t, i, m + 2, n)
           F == {k \in D : v[k] >= ValueLimit}
           G == {k \in E : w[k] >= ValueLimit}
           p == Parser!Spelled(s, i, m + 1, n)
           q == Parser!Spelled(t, i, m + 2, n)
           Adds == t[m + 1] \in Parser!Digits /\ Parser!Slot(s, i, m + 1) = n
<1>0. /\ i \in Nat /\ m + 1 \in Nat /\ m + 2 \in Nat /\ i < m + 1 /\ i < m + 2 /\ i =< m
      /\ m + 1 - 1 = m /\ m + 2 - 1 = m + 1
  OBVIOUS
<1>r. Reads(v, s, i, m + 1, n) /\ Reads(w, t, i, m + 2, n)
  BY <1>0, NumberIs, Zenon
<1>1. \A k \in i .. m : w[k] = v[k] /\ v[k] \in Nat
  <2>1. m + 2 \in m + 1 .. m + 2
    OBVIOUS
  <2>2. \A k \in i .. m : w[k] = v[k]
    BY <2>1, NumberAgrees
  <2>3. \A k \in i .. m : v[k] \in Nat
    <3> HIDE DEF v, w
    <3> QED
      BY <1>0, <1>r DEF Reads
  <2> QED
    BY <2>2, <2>3
<1>2. w[m + 1] = IF Adds THEN v[m] * 10 + (t[m + 1] - 48) ELSE v[m]
  <2>1. m + 1 \in i + 1 .. m + 2 - 1 /\ m + 1 - 1 = m /\ m \in i .. m
    BY <1>0
  <2>2. w[m + 1] = IF t[m + 1] \in Parser!Digits /\ Parser!Slot(t, i, m + 1) = n
                   THEN w[m + 1 - 1] * 10 + (t[m + 1] - 48) ELSE w[m + 1 - 1]
    <3> HIDE DEF v, w
    <3> QED
      BY <1>r, <2>1 DEF Reads
  <2>3. Parser!Slot(t, i, m + 1) = Parser!Slot(s, i, m + 1)
    <3>1. m + 1 \in 1 .. m + 1
      OBVIOUS
    <3> QED
      BY <1>0, <3>1, SlotAgrees
  <2> QED
    BY <1>1, <2>1, <2>2, <2>3
<1>3. D \subseteq i + 1 .. m /\ D \subseteq Nat
  BY <1>0 DEF Parser!DigitsOf
<1>4. E = IF Adds THEN D \cup {m + 1} ELSE D
  <2>1. \A k \in 1 .. m + 1 : Parser!Slot(t, i, k) = Parser!Slot(s, i, k)
    BY <1>0, SlotAgrees
  <2>2. \A k \in 1 .. m : t[k] = s[k]
    BY DEF AgreeTo
  <2>3. \A k : k \in E <=>
          k \in i + 1 .. m + 1 /\ t[k] \in Parser!Digits /\ Parser!Slot(s, i, k) = n
    BY <1>0, <2>1 DEF Parser!DigitsOf
  <2>4. \A k : k \in D <=>
          k \in i + 1 .. m /\ t[k] \in Parser!Digits /\ Parser!Slot(s, i, k) = n
    BY <1>0, <2>2 DEF Parser!DigitsOf
  <2>5. \A k : k \in i + 1 .. m + 1 <=> k \in i + 1 .. m \/ k = m + 1
    BY <1>0
  <2> HIDE DEF D, E
  <2> QED
    BY <2>3, <2>4, <2>5
<1>5. /\ p = IF D = {} THEN -1 ELSE v[IF F = {} THEN m ELSE Parser!Min(F)]
      /\ q = IF E = {} THEN -1 ELSE w[IF G = {} THEN m + 1 ELSE Parser!Min(G)]
  <2>1. F = Full(s, i, m + 1, n) /\ G = Full(t, i, m + 2, n)
    BY DEF Full
  <2>2. p = IF D = {} THEN -1 ELSE v[EndOf(s, i, m + 1, n)]
    BY SpelledAt
  <2>3. q = IF E = {} THEN -1 ELSE w[EndOf(t, i, m + 2, n)]
    BY SpelledAt
  <2>4. /\ EndOf(s, i, m + 1, n) = IF F = {} THEN m ELSE Parser!Min(F)
        /\ EndOf(t, i, m + 2, n) = IF G = {} THEN m + 1 ELSE Parser!Min(G)
    <3> HIDE DEF p, q, D, E, v, w, F, G
    <3> QED
      BY <1>0, <2>1 DEF EndOf
  <2> HIDE DEF p, q, D, E, v, w, F, G
  <2> QED
    BY <2>2, <2>3, <2>4
<1>6. D = {} => v[m] = 0
  <2> SUFFICES ASSUME D = {} PROVE v[m] = 0
    OBVIOUS
  <2>1. \A k \in D : v[k] < 1
    OBVIOUS
  <2>3. v[m] < 1
    <3>1. 1 \in Nat /\ 1 =< 1
      OBVIOUS
    <3> QED
      BY <2>1, <3>1, NumberStays, Zenon
  <2>2. v[m] \in Nat
    BY <1>0, <1>1
  <2> QED
    BY <2>2, <2>3
<1>7. F = {} => v[m] < ValueLimit
  <2> SUFFICES ASSUME F = {} PROVE v[m] < ValueLimit
    OBVIOUS
  <2>1. ValueLimit \in Nat /\ 1 =< ValueLimit
    BY ParserConstants
  <2>2. \A k \in D : v[k] < ValueLimit
    BY <1>1, <1>3, <2>1
  <2> QED
    BY <2>1, <2>2, NumberStays
<1>l. ValueLimit \in Nat /\ 1 =< ValueLimit
  BY ParserConstants
<1>d. t[m + 1] \in Parser!Digits => t[m + 1] \in Nat /\ t[m + 1] >= 48
  BY DEF Parser!Digits
<1> HIDE DEF D, E, v, w, p, q
<1>8. F # {} => Parser!Min(F) \in F /\ \A k \in F : Parser!Min(F) =< k
  <2>1. F \in SUBSET Nat
    BY <1>3
  <2> HIDE DEF F
  <2> QED
    BY <2>1, MinOf
<1>9. /\ \A k \in D : k \in i .. m /\ w[k] = v[k] /\ v[k] \in Nat /\ k < m + 1
      /\ m \in i .. m
  BY <1>0, <1>1, <1>3
<1>10. p \in Nat \/ p = -1
  <2>1. CASE D = {}
    BY <1>5, <2>1
  <2>2. CASE D # {} /\ F = {}
    BY <1>1, <1>5, <1>9, <2>2
  <2>3. CASE D # {} /\ F # {}
    BY <1>5, <1>8, <1>9, <2>3
  <2> QED
    BY <2>1, <2>2, <2>3
<1>11. CASE ~Adds
  <2>1. E = D /\ G = F
    BY <1>4, <1>9, <1>11
  <2>2. w[m + 1] = v[m]
    BY <1>2, <1>11
  <2>3. F # {} => w[Parser!Min(F)] = v[Parser!Min(F)]
    BY <1>8, <1>9
  <2>4. q = p
    <3> HIDE DEF F, G
    <3> QED
      BY <1>5, <2>1, <2>2, <2>3
  <2> QED
    BY <1>10, <1>11, <2>4 DEF p, q
<1>12. CASE Adds
  <2>1. E = D \cup {m + 1} /\ E # {}
    BY <1>4, <1>12
  <2>2. w[m + 1] = v[m] * 10 + (t[m + 1] - 48) /\ v[m] \in Nat
    BY <1>1, <1>2, <1>9, <1>12
  <2>3. CASE F = {}
    <3>1. G \subseteq {m + 1}
      BY <1>9, <2>1, <2>3
    <3>2. (IF G = {} THEN m + 1 ELSE Parser!Min(G)) = m + 1
      <4>1. CASE G = {}
        BY <4>1
      <4>2. CASE G # {}
        <5>1. G \in SUBSET Int /\ m + 1 \in G /\ \A k \in G : m + 1 =< k
          BY <3>1, <4>2
        <5>2. Parser!Min(G) = m + 1
          <6> HIDE DEF G
          <6> QED
            BY <5>1, MinIs, Zenon
        <5> QED
          BY <4>2, <5>2
      <4> QED
        BY <4>1, <4>2
    <3>3. q = w[m + 1]
      <4> HIDE DEF G
      <4> QED
        BY <1>5, <2>1, <3>2
    <3>4. (IF p = -1 THEN 0 ELSE p) = v[m]
      <4> HIDE DEF F
      <4>1. CASE D = {}
        BY <1>5, <1>6, <4>1
      <4>2. CASE D # {}
        BY <1>5, <2>2, <2>3, <4>2
      <4> QED
        BY <4>1, <4>2
    <3>5. q = WithDigit(IF p = -1 THEN 0 ELSE p, t[m + 1])
      BY <1>7, <2>2, <2>3, <3>3, <3>4 DEF WithDigit
    <3> QED
      BY <1>10, <1>12, <3>5 DEF p, q
  <2>4. CASE F # {}
    <3>1. PICK f \in D : f = Parser!Min(F) /\ v[f] >= ValueLimit /\ \A k \in F : f =< k
      BY <1>8, <2>4
    <3>2. D # {} /\ p = v[f]
      BY <1>5, <2>4, <3>1
    <3>3. f \in G /\ G \in SUBSET Int /\ \A k \in G : f =< k
      <4>1. f \in E /\ w[f] = v[f]
        BY <1>9, <2>1, <3>1
      <4>2. \A k \in G : k \in F \/ k = m + 1
        BY <1>9, <2>1
      <4>3. G \in SUBSET Int
        <5>1. E \subseteq Int
          BY <1>0, <1>3, <2>1
        <5> QED
          BY <5>1
      <4>4. f < m + 1 /\ f \in Int
        BY <1>3, <1>9, <3>1
      <4> QED
        BY <3>1, <4>1, <4>2, <4>3, <4>4
    <3>4. Parser!Min(G) = f
      <4> HIDE DEF G
      <4> QED
        BY <3>3, MinIs, Zenon
    <3>5. q = w[f] /\ w[f] = v[f]
      <4>1. G # {}
        BY <3>3
      <4> HIDE DEF G
      <4> QED
        BY <1>5, <1>9, <2>1, <3>1, <3>4, <4>1
    <3>6. v[f] \in Nat
      BY <1>9, <3>1
    <3>7. q = WithDigit(IF p = -1 THEN 0 ELSE p, t[m + 1])
      BY <1>l, <3>1, <3>2, <3>5, <3>6 DEF WithDigit
    <3> QED
      BY <1>10, <1>12, <3>7 DEF p, q
  <2> QED
    BY <2>3, <2>4
<1> QED
  BY <1>11, <1>12

\* What a sequence spells depends on the bytes before.
LEMMA SpelledAgrees ==
    ASSUME NEW m \in Nat, NEW s, NEW t, AgreeTo(s, t, m), NEW i \in 1 .. m, NEW n
    PROVE  Parser!Spelled(t, i, m + 1, n) = Parser!Spelled(s, i, m + 1, n)
<1> DEFINE v == Parser!Number(s, i, m + 1, n)
           w == Parser!Number(t, i, m + 1, n)
           D == Parser!DigitsOf(s, i, m + 1, n)
           E == Parser!DigitsOf(t, i, m + 1, n)
           F == Full(s, i, m + 1, n)
           G == Full(t, i, m + 1, n)
<1>1. \A k \in i .. m : w[k] = v[k]
  <2>1. m + 1 \in m + 1 .. m + 2
    OBVIOUS
  <2> QED
    BY <2>1, NumberAgrees
<1>2. \A k \in i + 1 .. m : t[k] = s[k] /\ Parser!Slot(t, i, k) = Parser!Slot(s, i, k)
  <2> SUFFICES ASSUME NEW k \in i + 1 .. m
               PROVE  t[k] = s[k] /\ Parser!Slot(t, i, k) = Parser!Slot(s, i, k)
    OBVIOUS
  <2>1. k \in 1 .. m /\ k \in 1 .. m + 1 /\ i \in Nat
    OBVIOUS
  <2> QED
    BY <2>1, SlotAgrees DEF AgreeTo
<1>3. E = D /\ D \subseteq i .. m
  BY <1>2 DEF Parser!DigitsOf
<1>4. G = F /\ (F # {} => Parser!Min(F) \in i .. m)
  <2>1. G = F /\ F \subseteq D
    BY <1>1, <1>3 DEF Full
  <2>2. F # {} => Parser!Min(F) \in F
    <3>1. F \in SUBSET Nat
      BY <1>3, <2>1
    <3> HIDE DEF F
    <3> QED
      BY <3>1, MinOf
  <2> HIDE DEF F, G, D
  <2> QED
    BY <1>3, <2>1, <2>2
<1>5. EndOf(t, i, m + 1, n) = EndOf(s, i, m + 1, n) /\ EndOf(s, i, m + 1, n) \in i .. m
  BY <1>4 DEF EndOf
<1>6. /\ Parser!Spelled(s, i, m + 1, n) = IF D = {} THEN -1 ELSE v[EndOf(s, i, m + 1, n)]
      /\ Parser!Spelled(t, i, m + 1, n) = IF E = {} THEN -1 ELSE w[EndOf(t, i, m + 1, n)]
  BY SpelledAt
<1> HIDE DEF v, w, D, E
<1> QED
  BY <1>1, <1>3, <1>5, <1>6

\* So does whether anything in it counts.
LEMMA BlankAgrees ==
    ASSUME NEW m \in Nat, NEW s, NEW t, AgreeTo(s, t, m), NEW i \in 1 .. m
    PROVE  /\ \A k \in 1 .. m + 1 : Parser!Blank(t, i, k) <=> Parser!Blank(s, i, k)
           /\ Parser!SpelledPrivate(t, i, m + 1) <=> Parser!SpelledPrivate(s, i, m + 1)
           /\ Parser!Blank(t, i, m + 2) <=>
                Parser!Blank(s, i, m + 1) /\ t[m + 1] \notin Parser!Digits \cup {59}
           /\ Parser!SpelledPrivate(t, i, m + 2) <=>
                \/ Parser!SpelledPrivate(s, i, m + 1)
                \/ t[m + 1] = 63 /\ Parser!Blank(s, i, m + 1)
<1>0. i \in Nat /\ i >= 1 /\ i =< m /\ m + 1 - 1 = m /\ m + 2 - 1 = m + 1
  OBVIOUS
<1>1. \A k \in 1 .. m : t[k] = s[k]
  BY DEF AgreeTo
<1>2. ASSUME NEW k \in 1 .. m + 1
      PROVE  Parser!Blank(t, i, k) <=> Parser!Blank(s, i, k)
  <2>1. \A h \in i + 1 .. k - 1 : t[h] = s[h]
    BY <1>0, <1>1
  <2> QED
    BY <2>1, Zenon DEF Parser!Blank
<1>3. /\ \A k : k \in i + 1 .. m + 2 - 1 <=> k \in i + 1 .. m + 1 - 1 \/ k = m + 1
      /\ \A k \in i + 1 .. m + 1 - 1 : k \in 1 .. m /\ k \in 1 .. m + 1
      /\ m + 1 \in 1 .. m + 1
  BY <1>0
<1>4. Parser!SpelledPrivate(t, i, m + 1) <=> Parser!SpelledPrivate(s, i, m + 1)
  BY <1>1, <1>2, <1>3 DEF Parser!SpelledPrivate
<1>5. Parser!Blank(t, i, m + 2) <=>
        Parser!Blank(t, i, m + 1) /\ t[m + 1] \notin Parser!Digits \cup {59}
  BY <1>3 DEF Parser!Blank, Parser!Semicolon
<1>6. Parser!SpelledPrivate(t, i, m + 2) <=>
        Parser!SpelledPrivate(t, i, m + 1) \/ (t[m + 1] = 63 /\ Parser!Blank(t, i, m + 1))
  BY <1>3 DEF Parser!SpelledPrivate, Parser!Question
<1> QED
  BY <1>2, <1>3, <1>4, <1>5, <1>6, Zenon

\* A sequence that has just begun is blank.
LEMMA BlankFirst ==
    ASSUME NEW s, NEW i \in Nat
    PROVE  Parser!Blank(s, i, i + 1) /\ ~Parser!SpelledPrivate(s, i, i + 1)
<1>1. i + 1 .. i + 1 - 1 = {}
  OBVIOUS
<1> QED
  BY <1>1 DEF Parser!Blank, Parser!SpelledPrivate

-----------------------------------------------------------------------------
(***************************************************************************)
(* Characters of several bytes.                                            *)
(***************************************************************************)
\* What a byte that begins a character leaves of it.
LEMMA LeadFits ==
    ASSUME NEW b \in Nat, b =< 255
    PROVE  /\ Parser!Following(b) \in 0 .. 3
           /\ Parser!LeadBits(b) \in Nat /\ Parser!LeadBits(b) < 32
           /\ Parser!Following(b) = 2 => Parser!LeadBits(b) < 16
           /\ Parser!Following(b) = 3 => Parser!LeadBits(b) < 8
<1>1. CASE 192 =< b /\ b =< 223
  <2>1. b \in 192 .. 223 /\ b \notin 224 .. 239 /\ b \notin 240 .. 247
    BY <1>1
  <2>2. Parser!Following(b) = 1
    BY <2>1 DEF Parser!Following
  <2>3. Parser!LeadBits(b) = b % 32
    BY <2>1 DEF Parser!LeadBits
  <2> QED
    BY <2>2, <2>3
<1>2. CASE 224 =< b /\ b =< 239
  <2>1. b \notin 192 .. 223 /\ b \in 224 .. 239 /\ b \notin 240 .. 247
    BY <1>2
  <2>2. Parser!Following(b) = 2
    BY <2>1 DEF Parser!Following
  <2>3. Parser!LeadBits(b) = b % 16
    BY <2>1 DEF Parser!LeadBits
  <2> QED
    BY <2>2, <2>3
<1>3. CASE 240 =< b /\ b =< 247
  <2>1. b \notin 192 .. 223 /\ b \notin 224 .. 239 /\ b \in 240 .. 247
    BY <1>3
  <2>2. Parser!Following(b) = 3
    BY <2>1 DEF Parser!Following
  <2>3. Parser!LeadBits(b) = b % 8
    BY <2>1 DEF Parser!LeadBits
  <2> QED
    BY <2>2, <2>3
<1>4. CASE b < 192 \/ 247 < b
  <2>1. b \notin 192 .. 223 /\ b \notin 224 .. 239 /\ b \notin 240 .. 247
    BY <1>4
  <2>2. Parser!Following(b) = 0 /\ Parser!LeadBits(b) = b % 8
    BY <2>1, Zenon DEF Parser!Following, Parser!LeadBits
  <2> QED
    BY <2>2
<1> QED
  BY <1>1, <1>2, <1>3, <1>4

\* One more byte of a character adds six bits.
LEMMA DecodedGrows ==
    ASSUME NEW n \in Nat, NEW s, NEW t, AgreeTo(s, t, n), NEW i \in 1 .. n, n =< i + 2,
           \A k \in 1 .. n : s[k] \in Nat /\ s[k] =< 255,
           t[n + 1] \in Nat, Parser!IsContinuation(t[n + 1])
    PROVE  Parser!Decoded(t, i, n + 1) = Parser!Decoded(s, i, n) * 64 + (t[n + 1] % 64)
<1>0. i \in Nat /\ i >= 1 /\ i =< n
  OBVIOUS
<1>1. PICK lead \in Nat : lead = Parser!LeadBits(s[i]) /\ lead = Parser!LeadBits(t[i])
  <2>1. t[i] = s[i]
    BY DEF AgreeTo
  <2>2. Parser!LeadBits(s[i]) \in Nat
    BY LeadFits
  <2> QED
    BY <2>1, <2>2
<1>2. PICK x \in Nat : x = t[n + 1] /\ x >= 128 /\ x =< 191
  BY DEF Parser!IsContinuation
<1>3. x % 64 = x - 128
  BY <1>2
<1>4. CASE n = i
  <2>1. n + 1 # i /\ n + 1 = i + 1
    BY <1>0, <1>4
  <2>2. Parser!Decoded(t, i, n + 1) = lead * 64 + (x - 128)
    BY <1>1, <1>2, <2>1 DEF Parser!Decoded, Parser!Bits
  <2>3. Parser!Decoded(s, i, n) = lead
    BY <1>1, <1>4 DEF Parser!Decoded
  <2> QED
    BY <1>2, <1>3, <2>2, <2>3
<1>5. CASE n = i + 1
  <2>1. n + 1 # i /\ n + 1 # i + 1 /\ n + 1 = i + 2 /\ n # i
    BY <1>0, <1>5
  <2>2. PICK y \in Nat : y = s[i + 1] /\ y = t[i + 1] /\ y = s[n]
    BY <1>0, <1>5 DEF AgreeTo
  <2>3. Parser!Decoded(t, i, n + 1) = lead * 64 * 64 + (y - 128) * 64 + (x - 128)
    BY <1>1, <1>2, <2>1, <2>2 DEF Parser!Decoded, Parser!Bits
  <2>4. Parser!Decoded(s, i, n) = lead * 64 + (y - 128)
    BY <1>1, <1>5, <2>1, <2>2 DEF Parser!Decoded, Parser!Bits
  <2> QED
    BY <1>2, <1>3, <2>3, <2>4
<1>6. CASE n = i + 2
  <2>1. n + 1 # i /\ n + 1 # i + 1 /\ n + 1 # i + 2 /\ n + 1 = i + 3 /\ n # i /\ n # i + 1
    BY <1>0, <1>6
  <2>2. PICK y \in Nat : y = s[i + 1] /\ y = t[i + 1]
    BY <1>0, <1>6 DEF AgreeTo
  <2>3. PICK z \in Nat : z = s[i + 2] /\ z = t[i + 2] /\ z = s[n]
    BY <1>0, <1>6 DEF AgreeTo
  <2>4. Parser!Decoded(t, i, n + 1) =
          lead * 64 * 64 * 64 + (y - 128) * 64 * 64 + (z - 128) * 64 + (x - 128)
    BY <1>1, <1>2, <2>1, <2>2, <2>3 DEF Parser!Decoded, Parser!Bits
  <2>5. Parser!Decoded(s, i, n) = lead * 64 * 64 + (y - 128) * 64 + (z - 128)
    BY <1>1, <1>6, <2>1, <2>2, <2>3 DEF Parser!Decoded, Parser!Bits
  <2> QED
    BY <1>2, <1>3, <2>4, <2>5
<1>7. n = i \/ n = i + 1 \/ n = i + 2
  BY <1>0
<1> QED
  BY <1>4, <1>5, <1>6, <1>7

\* What stands for a code point in a cell.
LEMMA EmitShows ==
    ASSUME NEW cp \in Nat
    PROVE  Parser!EmitCodePoint(cp) = <<"Put", Parser!Shown(cp)>>
<1>1. PICK a \in Nat, c \in Nat, d \in Nat : a = 65535 /\ c = 55296 /\ d = 57343
  OBVIOUS
<1>2. (cp \in (1 .. a) \ (c .. d)) <=> ~(cp = 0 \/ cp > a \/ cp \in c .. d)
  OBVIOUS
<1> QED
  <2>1. Parser!EmitCodePoint(cp) =
          <<"Put", IF cp = 0 \/ cp > a \/ cp \in c .. d THEN Parser!Question ELSE cp>>
    BY <1>1 DEF Parser!EmitCodePoint
  <2>2. Parser!Shown(cp) = IF cp \in (1 .. a) \ (c .. d) THEN cp ELSE Parser!Question
    BY <1>1 DEF Parser!Shown
  <2>3. Parser!Shown(cp) = IF cp = 0 \/ cp > a \/ cp \in c .. d THEN Parser!Question ELSE cp
    BY <1>2, <2>2
  <2> QED
    BY <2>1, <2>3

-----------------------------------------------------------------------------
(***************************************************************************)
(* The invariant.                                                          *)
(***************************************************************************)
\* The fewer bytes a character still misses, the more bits it has.
PointFits ==
    /\ Utf8CodePoint \in Nat /\ Utf8CodePoint < 8 * 64 * 64 * 64
    /\ Utf8Remaining = 1 => Utf8CodePoint < 8 * 64 * 64
    /\ Utf8Remaining = 2 => Utf8CodePoint < 8 * 64
    /\ Utf8Remaining = 3 => Utf8CodePoint < 8

\* Every variable has its type.
ParserTypes ==
    /\ ParserState \in {"Ground", "Escape", "Csi", "Osc", "OscEscape"}
    /\ ParameterCount \in 1 .. MaxParams
    /\ Parameters \in [1 .. MaxParams -> -1 .. 10 * ValueLimit - 1]
    /\ PrivateCsi \in BOOLEAN
    /\ Utf8Remaining \in 0 .. 3 /\ PointFits
    /\ fed \in Seq(Parser!Bytes)

\* An ESC is always remembered, and so is what is open: a string, a control
\* sequence, a character of several bytes with the bits it has so far, and the
\* parameters of the control sequence.
EscapeSeen ==
    Len(fed) # 0 /\ fed[Len(fed)] = 27 <=> ParserState \in {"Escape", "OscEscape"}
StringSeen == Parser!Payload(fed, Len(fed) + 1) => ParserState \in {"Osc", "OscEscape"}
StringKept == ParserState \in {"Osc", "OscEscape"} => Parser!Payload(fed, Len(fed) + 1)
SequenceSeen == Parser!InCsi(fed, Len(fed) + 1) <=> ParserState = "Csi"
PlacesKnown == EscapeSeen /\ StringSeen /\ StringKept /\ SequenceSeen

CharacterSeen ==
    /\ Utf8Remaining # 0 => \E i \in 1 .. Len(fed) : Parser!Awaits(fed, i, Len(fed) + 1)
    /\ \A i \in 1 .. Len(fed) : Parser!Awaits(fed, i, Len(fed) + 1) =>
         /\ ParserState = "Ground"
         /\ Utf8Remaining = Parser!Following(fed[i]) - (Len(fed) - i)
         /\ Utf8CodePoint = Parser!Decoded(fed, i, Len(fed))

\* What the parser holds of the sequence that began at i, of which j is the next byte.
Holds(s, i, j, count, numbers, private) ==
    /\ count = Parser!Slot(s, i, j)
    /\ \A m \in 1 .. MaxParams :
         Parser!Spelled(s, i, j, m) = IF m =< count THEN numbers[m] ELSE -1
    /\ private = Parser!SpelledPrivate(s, i, j)
    /\ Parser!Blank(s, i, j) <=> count = 1 /\ numbers[1] = -1
ParametersSeen ==
    \A i \in 1 .. Len(fed) : Parser!CsiFrom(fed, i, Len(fed) + 1) =>
      Holds(fed, i, Len(fed) + 1, ParameterCount, Parameters, PrivateCsi)

ParserInv ==
    /\ ParserTypes /\ PlacesKnown /\ CharacterSeen /\ ParametersSeen
    /\ Parser!PayloadHidden /\ Parser!SequenceSpelled /\ Parser!TextDecoded
    /\ Parser!CellsShowable

\* The parser starts in the ground state.
LEMMA ParserInvInit == Parser!Init => ParserInv
<1> SUFFICES ASSUME Parser!Init
             PROVE  ParserInv
  OBVIOUS
<1>1. fed = << >> /\ Len(fed) = 0 /\ issued = << >> /\ ParserState = "Ground"
  BY DEF Parser!Init
<1>2. << >> \in Seq(Parser!Bytes)
  OBVIOUS
<1>3. -1 \in -1 .. 10 * ValueLimit - 1
  BY ParserConstants
<1>4. ParserTypes
  <2>1. Utf8Remaining \in 0 .. 3 /\ PointFits
    BY DEF PointFits, Parser!Init
  <2>2. Parameters \in [1 .. MaxParams -> -1 .. 10 * ValueLimit - 1]
    BY <1>3 DEF Parser!Init
  <2>3. ParameterCount \in 1 .. MaxParams
    BY ParserConstants DEF Parser!Init
  <2>4. PrivateCsi \in BOOLEAN
    BY Zenon DEF Parser!Init
  <2> QED
    BY <1>1, <1>2, <2>1, <2>2, <2>3, <2>4 DEF ParserTypes
<1>5. PlacesKnown
  <2>1. EscapeSeen
    BY <1>1 DEF EscapeSeen
  <2>2. ~Parser!Payload(fed, Len(fed) + 1)
    BY <1>1 DEF Parser!Payload
  <2>3. ~Parser!InCsi(fed, Len(fed) + 1)
    BY <1>1 DEF Parser!InCsi
  <2> QED
    BY <1>1, <2>1, <2>2, <2>3 DEF PlacesKnown, StringSeen, StringKept, SequenceSeen
<1>6. CharacterSeen /\ ParametersSeen
  <2>1. Utf8Remaining = 0 /\ 1 .. Len(fed) = {}
    BY <1>1 DEF Parser!Init
  <2> QED
    BY <2>1 DEF CharacterSeen, ParametersSeen
<1>7. Parser!PayloadHidden /\ Parser!SequenceSpelled /\ Parser!TextDecoded
  <2>1. Parser!last = 0 /\ 1 .. Parser!last = {}
    BY <1>1 DEF Parser!last
  <2>2. Parser!PayloadHidden
    BY <2>1 DEF Parser!PayloadHidden
  <2>3. Parser!SequenceSpelled
    BY <2>1 DEF Parser!SequenceSpelled
  <2>4. Parser!TextDecoded
    <3>1. ~(Parser!last > 0)
      BY <2>1
    <3> QED
      BY <3>1, Zenon DEF Parser!TextDecoded
  <2> QED
    BY <2>2, <2>3, <2>4
<1>8. Parser!CellsShowable
  BY <1>1 DEF Parser!CellsShowable
<1> QED
  BY <1>4, <1>5, <1>6, <1>7, <1>8 DEF ParserInv

-----------------------------------------------------------------------------
(***************************************************************************)
(* Its steps: the types, and what is drawn or obeyed.                      *)
(***************************************************************************)
\* Feeding a byte leaves the bytes before it.
LEMMA FeedAppends ==
    ASSUME fed \in Seq(Parser!Bytes), NEW b \in Parser!Bytes, Parser!Feed(b)
    PROVE  /\ fed' \in Seq(Parser!Bytes) /\ Len(fed') = Len(fed) + 1
           /\ fed'[Len(fed')] = b /\ Len(fed) \in Nat
           /\ \A k \in 1 .. Len(fed) : fed'[k] = fed[k]
BY DEF Parser!Feed

\* A byte keeps the types.
LEMMA ParserTypesStep ==
    ASSUME ParserTypes, Parser!Next
    PROVE  ParserTypes'
<1> USE ParserConstants
<1>1. CASE Parser!FeedEscByte
  <2>1. 27 \in Parser!Bytes /\ Parser!Feed(27)
    BY <1>1 DEF Parser!FeedEscByte, Parser!ESC
  <2>2. fed' \in Seq(Parser!Bytes)
    BY <2>1, FeedAppends DEF ParserTypes
  <2>3. Utf8Remaining' \in 0 .. 3 /\ PointFits'
    BY <1>1 DEF Parser!FeedEscByte, ParserTypes, PointFits
  <2>4. ParserState' \in {"Ground", "Escape", "Csi", "Osc", "OscEscape"}
    BY <1>1 DEF Parser!FeedEscByte
  <2>5. UNCHANGED <<Parameters, ParameterCount, PrivateCsi>>
    BY <1>1 DEF Parser!FeedEscByte, Parser!numbers
  <2> QED
    BY <2>2, <2>3, <2>4, <2>5 DEF ParserTypes
<1>2. CASE Parser!FeedText
  <2>1. PICK b \in Parser!Bytes :
          /\ Parser!Feed(b) /\ Utf8Remaining' = Parser!Following(b)
          /\ Utf8CodePoint' = IF Parser!Following(b) = 0 THEN Utf8CodePoint ELSE Parser!LeadBits(b)
    BY <1>2 DEF Parser!FeedText
  <2>2. fed' \in Seq(Parser!Bytes)
    BY <2>1, FeedAppends DEF ParserTypes
  <2>3. Utf8Remaining' \in 0 .. 3 /\ PointFits'
    <3>1. b \in Nat /\ b =< 255
      OBVIOUS
    <3>2. /\ Parser!Following(b) \in 0 .. 3
          /\ Parser!LeadBits(b) \in Nat /\ Parser!LeadBits(b) < 32
          /\ Parser!Following(b) = 2 => Parser!LeadBits(b) < 16
          /\ Parser!Following(b) = 3 => Parser!LeadBits(b) < 8
      BY <3>1, LeadFits, Zenon
    <3> QED
      BY <2>1, <3>2 DEF ParserTypes, PointFits
  <2> QED
    BY <1>2, <2>2, <2>3 DEF Parser!FeedText, Parser!numbers, ParserTypes
<1>3. CASE Parser!FeedContinuation
  <2>1. PICK b \in Parser!Bytes :
          /\ Parser!Feed(b) /\ Utf8Remaining' = Utf8Remaining - 1
          /\ Utf8CodePoint' = Utf8CodePoint * 64 + (b % 64)
    BY <1>3 DEF Parser!FeedContinuation
  <2>2. fed' \in Seq(Parser!Bytes)
    BY <2>1, FeedAppends DEF ParserTypes
  <2>3. Utf8Remaining \in 1 .. 3 /\ b % 64 \in Nat /\ b % 64 < 64
    BY <1>3, <2>1 DEF ParserTypes, Parser!FeedContinuation
  <2>4. Utf8Remaining' \in 0 .. 3 /\ PointFits'
    BY <2>1, <2>3 DEF ParserTypes, PointFits
  <2> QED
    BY <1>3, <2>2, <2>4 DEF Parser!FeedContinuation, Parser!numbers, ParserTypes
<1>4. CASE Parser!FeedEscape
  <2>1. PICK b \in Parser!Bytes :
          /\ Parser!Feed(b) /\ ParserState' = Parser!AfterEscape(b)
          /\ IF b = Parser!LeftBracket THEN Parser!ResetParser ELSE UNCHANGED Parser!numbers
    BY <1>4 DEF Parser!FeedEscape
  <2>2. fed' \in Seq(Parser!Bytes)
    BY <2>1, FeedAppends DEF ParserTypes
  <2>3. ParserState' \in {"Ground", "Escape", "Csi", "Osc", "OscEscape"}
    BY <2>1 DEF Parser!AfterEscape, Parser!LeftBracket, Parser!RightBracket
  <2>4. /\ ParameterCount' \in 1 .. MaxParams /\ PrivateCsi' \in BOOLEAN
        /\ Parameters' \in [1 .. MaxParams -> -1 .. 10 * ValueLimit - 1]
    <3>1. -1 \in -1 .. 10 * ValueLimit - 1
      OBVIOUS
    <3>2. CASE Parser!ResetParser
      <4>1. ParameterCount' \in 1 .. MaxParams
        BY <3>2 DEF Parser!ResetParser
      <4>2. Parameters' = [i \in 1 .. MaxParams |-> -1]
        BY <3>2 DEF Parser!ResetParser
      <4>3. PrivateCsi' \in BOOLEAN
        BY <3>2, Zenon DEF Parser!ResetParser
      <4> QED
        BY <3>1, <4>1, <4>2, <4>3
    <3>3. CASE UNCHANGED Parser!numbers
      BY <3>3 DEF Parser!numbers, ParserTypes
    <3> QED
      BY <2>1, <3>2, <3>3
  <2> QED
    BY <1>4, <2>2, <2>3, <2>4 DEF Parser!FeedEscape, Parser!utf8, ParserTypes, PointFits
<1>5. CASE Parser!CsiDigit
  <2>1. PICK b \in Parser!Bytes \cap Parser!Digits : Parser!Feed(b) /\ Parser!AddDigit(b)
    BY <1>5 DEF Parser!CsiDigit
  <2>2. fed' \in Seq(Parser!Bytes)
    BY <2>1, FeedAppends DEF ParserTypes
  <2>3. b \in Nat /\ 48 =< b /\ b =< 57
    BY <2>1 DEF Parser!Digits
  <2>4. PICK v \in Nat : /\ v = Parser!Max({Parameters[ParameterCount], 0})
                         /\ v =< 10 * ValueLimit - 1
    <3>1. /\ Parameters[ParameterCount] \in Int
          /\ Parameters[ParameterCount] =< 10 * ValueLimit - 1
      BY DEF ParserTypes
    <3> QED
      BY <3>1, MaxOfTwo
  <2>5. Parameters' = [Parameters EXCEPT ![ParameterCount] =
                         IF v < ValueLimit THEN v * 10 + (b - 48) ELSE v]
    BY <2>1, <2>4, Zenon DEF Parser!AddDigit
  <2>6. (IF v < ValueLimit THEN v * 10 + (b - 48) ELSE v) \in -1 .. 10 * ValueLimit - 1
    BY <2>3, <2>4
  <2>7. Parameters' \in [1 .. MaxParams -> -1 .. 10 * ValueLimit - 1]
    BY <2>5, <2>6 DEF ParserTypes
  <2> QED
    BY <1>5, <2>2, <2>7 DEF Parser!CsiDigit, Parser!utf8, ParserTypes, PointFits
<1>6. CASE Parser!CsiSemicolon
  <2>1. Parser!Feed(59) /\ 59 \in Parser!Bytes
    BY <1>6 DEF Parser!CsiSemicolon, Parser!Semicolon
  <2>2. fed' \in Seq(Parser!Bytes)
    BY <2>1, FeedAppends DEF ParserTypes
  <2>3. ParameterCount' \in 1 .. MaxParams
    BY <1>6 DEF Parser!CsiSemicolon, Parser!StartParameter, ParserTypes
  <2>4. Parameters' \in [1 .. MaxParams -> -1 .. 10 * ValueLimit - 1]
    <3>1. -1 \in -1 .. 10 * ValueLimit - 1
      OBVIOUS
    <3> QED
      BY <1>6, <3>1 DEF Parser!CsiSemicolon, ParserTypes
  <2> QED
    BY <1>6, <2>2, <2>3, <2>4 DEF Parser!CsiSemicolon, Parser!utf8, ParserTypes, PointFits
<1>7. CASE Parser!CsiFinal
  <2>1. PICK b \in Parser!Bytes : Parser!Feed(b)
    BY <1>7 DEF Parser!CsiFinal
  <2>2. fed' \in Seq(Parser!Bytes)
    BY <2>1, FeedAppends DEF ParserTypes
  <2> QED
    BY <1>7, <2>2 DEF Parser!CsiFinal, Parser!numbers, Parser!utf8, ParserTypes, PointFits
<1>8. CASE Parser!CsiOther
  <2>1. PICK b \in Parser!Bytes : Parser!Feed(b)
    BY <1>8 DEF Parser!CsiOther
  <2>2. fed' \in Seq(Parser!Bytes)
    BY <2>1, FeedAppends DEF ParserTypes
  <2>3. PrivateCsi' \in BOOLEAN
    BY <1>8 DEF Parser!CsiOther, ParserTypes
  <2> QED
    BY <1>8, <2>2, <2>3 DEF Parser!CsiOther, Parser!utf8, ParserTypes, PointFits
<1>9. CASE Parser!FeedOsc
  <2>1. PICK b \in Parser!Bytes :
          /\ Parser!Feed(b)
          /\ ParserState' = IF ParserState = "OscEscape" THEN Parser!AfterOscEscape(b)
                            ELSE IF b = Parser!BEL THEN "Ground" ELSE "Osc"
    BY <1>9 DEF Parser!FeedOsc
  <2>2. fed' \in Seq(Parser!Bytes)
    BY <2>1, FeedAppends DEF ParserTypes
  <2>3. ParserState' \in {"Ground", "Escape", "Csi", "Osc", "OscEscape"}
    BY <2>1 DEF Parser!AfterOscEscape
  <2> QED
    BY <1>9, <2>2, <2>3 DEF Parser!FeedOsc, Parser!numbers, Parser!utf8, ParserTypes, PointFits
<1> QED
  BY <1>1, <1>2, <1>3, <1>4, <1>5, <1>6, <1>7, <1>8, <1>9 DEF Parser!Next, Parser!FeedCsi

\* A byte keeps what is known of the last ESC.
LEMMA EscapeSeenStep ==
    ASSUME ParserTypes, EscapeSeen, Parser!Next
    PROVE  EscapeSeen'
<1>1. CASE Parser!FeedEscByte
  <2>1. 27 \in Parser!Bytes /\ Parser!Feed(27) /\ ParserState' \in {"Escape", "OscEscape"}
    BY <1>1 DEF Parser!FeedEscByte, Parser!ESC
  <2> QED
    BY <2>1, FeedAppends DEF ParserTypes, EscapeSeen
<1>2. CASE ~Parser!FeedEscByte
  <2>1. PICK b \in Parser!Bytes : Parser!Feed(b) /\ b # 27
                                  /\ ParserState' \notin {"Escape", "OscEscape"}
    <3>1. CASE Parser!FeedText
      BY <3>1 DEF Parser!FeedText, Parser!ESC
    <3>2. CASE Parser!FeedContinuation
      BY <3>2 DEF Parser!FeedContinuation, Parser!IsContinuation
    <3>3. CASE Parser!FeedEscape
      BY <3>3 DEF Parser!FeedEscape, Parser!ESC, Parser!AfterEscape
    <3>4. CASE Parser!CsiDigit
      BY <3>4 DEF Parser!CsiDigit, Parser!Digits
    <3>5. CASE Parser!CsiSemicolon
      <4>1. Parser!Feed(59) /\ 59 \in Parser!Bytes /\ 59 # 27
        BY <3>5 DEF Parser!CsiSemicolon, Parser!Semicolon
      <4>2. ParserState' \notin {"Escape", "OscEscape"}
        BY <3>5 DEF Parser!CsiSemicolon
      <4> QED
        BY <4>1, <4>2
    <3>6. CASE Parser!CsiFinal
      <4>1. PICK b \in Parser!Bytes : Parser!Feed(b) /\ b \in Parser!Finals
        BY <3>6 DEF Parser!CsiFinal
      <4>2. ParserState' \notin {"Escape", "OscEscape"}
        BY <3>6 DEF Parser!CsiFinal
      <4> QED
        BY <4>1, <4>2 DEF Parser!Finals
    <3>7. CASE Parser!CsiOther
      BY <3>7 DEF Parser!CsiOther, Parser!ESC
    <3>8. CASE Parser!FeedOsc
      BY <3>8 DEF Parser!FeedOsc, Parser!ESC, Parser!AfterOscEscape
    <3> QED
      BY <1>2, <3>1, <3>2, <3>3, <3>4, <3>5, <3>6, <3>7, <3>8 DEF Parser!Next, Parser!FeedCsi
  <2> QED
    BY <2>1, FeedAppends DEF ParserTypes, EscapeSeen
<1> QED
  BY <1>1, <1>2

\* While a string is open, only the byte that ends it closes it.
LEMMA StringSeenStep ==
    ASSUME ParserTypes, EscapeSeen, StringSeen, Parser!Next
    PROVE  StringSeen'
<1> SUFFICES ASSUME Parser!Payload(fed, Len(fed) + 1)'
             PROVE  ParserState' \in {"Osc", "OscEscape"}
  BY DEF StringSeen
<1> DEFINE n == Len(fed)
<1>0. PICK b \in Parser!Bytes :
        /\ Parser!Feed(b)
        /\ \/ b = 27 /\ Parser!FeedEscByte
           \/ /\ b # 27 /\ Parser!FeedEscape /\ ParserState = "Escape"
              /\ ParserState' = Parser!AfterEscape(b)
           \/ /\ b # 27 /\ Parser!FeedOsc /\ ParserState \in {"Osc", "OscEscape"}
              /\ ParserState' = IF ParserState = "OscEscape" THEN Parser!AfterOscEscape(b)
                                ELSE IF b = 7 THEN "Ground" ELSE "Osc"
           \/ ParserState \in {"Ground", "Csi"}
  <2>1. CASE Parser!FeedEscByte
    BY <2>1 DEF Parser!FeedEscByte, Parser!ESC
  <2>2. CASE Parser!FeedText
    BY <2>2 DEF Parser!FeedText
  <2>3. CASE Parser!FeedContinuation
    BY <2>3 DEF Parser!FeedContinuation
  <2>4. CASE Parser!FeedEscape
    BY <2>4 DEF Parser!FeedEscape, Parser!ESC
  <2>5. CASE Parser!CsiDigit
    BY <2>5 DEF Parser!CsiDigit
  <2>6. CASE Parser!CsiSemicolon
    BY <2>6 DEF Parser!CsiSemicolon
  <2>7. CASE Parser!CsiFinal
    BY <2>7 DEF Parser!CsiFinal
  <2>8. CASE Parser!CsiOther
    BY <2>8 DEF Parser!CsiOther
  <2>9. CASE Parser!FeedOsc
    BY <2>9 DEF Parser!FeedOsc, Parser!ESC, Parser!BEL
  <2> QED
    BY <2>1, <2>2, <2>3, <2>4, <2>5, <2>6, <2>7, <2>8, <2>9 DEF Parser!Next, Parser!FeedCsi
<1>1. /\ Len(fed') = n + 1 /\ fed'[n + 1] = b /\ n \in Nat
      /\ \A k \in 1 .. n : fed'[k] = fed[k]
  BY <1>0, FeedAppends DEF ParserTypes
<1>2. PICK i \in 1 .. n :
        /\ fed'[i] = 27 /\ fed'[i + 1] = 93
        /\ \A k \in i + 2 .. n + 1 : ~(IF k > i + 2 /\ fed'[k - 1] = 27 THEN fed'[k] = 92 ELSE fed'[k] = 7)
  BY <1>1 DEF Parser!Payload, Parser!IsPair, Parser!Closes, Parser!ESC, Parser!RightBracket,
              Parser!Backslash, Parser!BEL
<1>3. CASE i = n
  <2>1. fed[n] = 27 /\ n # 0 /\ b = 93
    BY <1>1, <1>2, <1>3
  <2>2. ParserState \in {"Escape", "OscEscape"}
    BY <2>1 DEF EscapeSeen
  <2> QED
    BY <1>0, <2>1, <2>2 DEF Parser!AfterEscape, Parser!LeftBracket, Parser!RightBracket,
                            Parser!AfterOscEscape, Parser!Backslash
<1>4. CASE i < n
  <2>1. fed[i] = 27 /\ fed[i + 1] = 93 /\ i \in Nat
    BY <1>1, <1>2, <1>4
  <2>2. Parser!Payload(fed, n + 1)
    <3>1. \A k \in i + 2 .. n : ~(IF k > i + 2 /\ fed[k - 1] = 27 THEN fed[k] = 92 ELSE fed[k] = 7)
      <4>1. SUFFICES ASSUME NEW k \in i + 2 .. n
                     PROVE  ~(IF k > i + 2 /\ fed[k - 1] = 27 THEN fed[k] = 92 ELSE fed[k] = 7)
        OBVIOUS
      <4>2. k \in 1 .. n /\ k - 1 \in 1 .. n /\ k \in i + 2 .. n + 1
        BY <1>1, <2>1
      <4>3. fed'[k] = fed[k] /\ fed'[k - 1] = fed[k - 1]
        BY <1>1, <4>2
      <4> QED
        BY <1>2, <4>2, <4>3
    <3>2. i \in 1 .. n + 1 - 2 /\ n + 1 - 1 = n
      BY <1>1, <1>4, <2>1
    <3>3. \A k \in i + 2 .. n + 1 - 1 : ~Parser!Closes(fed, i, k)
      BY <3>1, <3>2 DEF Parser!Closes, Parser!ESC, Parser!Backslash, Parser!BEL
    <3> QED
      BY <2>1, <3>2, <3>3 DEF Parser!Payload, Parser!IsPair, Parser!ESC, Parser!RightBracket
  <2>3. ParserState \in {"Osc", "OscEscape"}
    BY <2>2 DEF StringSeen
  <2>4. CASE b = 27
    BY <1>0, <2>3, <2>4 DEF Parser!FeedEscByte
  <2>5. CASE b # 27
    <3>1. ParserState' = IF ParserState = "OscEscape" THEN Parser!AfterOscEscape(b)
                         ELSE IF b = 7 THEN "Ground" ELSE "Osc"
      BY <1>0, <2>3, <2>5
    <3>2. n + 1 \in i + 2 .. n + 1 /\ n # 0 /\ n + 1 - 1 = n /\ n \in 1 .. n /\ i + 1 \in Nat
      BY <1>1, <1>4, <2>1
    <3>3. IF n + 1 > i + 2 /\ fed[n] = 27 THEN b # 92 ELSE b # 7
      BY <1>1, <1>2, <3>2
    <3>4. fed[n] = 27 => n + 1 > i + 2
      <4>1. SUFFICES ASSUME fed[n] = 27, ~(n + 1 > i + 2)
                     PROVE  FALSE
        OBVIOUS
      <4>2. n = i + 1
        BY <1>1, <1>4, <2>1, <4>1
      <4> QED
        BY <2>1, <4>1, <4>2
    <3>5. ParserState = "OscEscape" <=> fed[n] = 27
      BY <2>3, <3>2 DEF EscapeSeen
    <3> QED
      BY <2>3, <3>1, <3>3, <3>4, <3>5 DEF Parser!AfterOscEscape, Parser!Backslash
  <2> QED
    BY <2>4, <2>5
<1> QED
  BY <1>1, <1>2, <1>3, <1>4

\* A byte belongs to a string because of the bytes before it.
LEMMA PayloadBefore ==
    ASSUME ParserTypes, NEW b \in Parser!Bytes, Parser!Feed(b), Parser!Payload(fed, Len(fed))'
    PROVE  Parser!Payload(fed, Len(fed) + 1)
<1> DEFINE n == Len(fed)
<1>1. /\ Len(fed') = n + 1 /\ n \in Nat /\ \A k \in 1 .. n : fed'[k] = fed[k]
  BY FeedAppends DEF ParserTypes
<1>2. PICK i \in 1 .. n - 1 :
        /\ fed'[i] = 27 /\ fed'[i + 1] = 93
        /\ \A k \in i + 2 .. n : ~(IF k > i + 2 /\ fed'[k - 1] = 27 THEN fed'[k] = 92 ELSE fed'[k] = 7)
  BY <1>1 DEF Parser!Payload, Parser!IsPair, Parser!Closes, Parser!ESC, Parser!RightBracket,
              Parser!Backslash, Parser!BEL
<1>3. i \in 1 .. n /\ i + 1 \in 1 .. n /\ i \in 1 .. n + 1 - 2 /\ n + 1 - 1 = n
  BY <1>1
<1>4. fed[i] = 27 /\ fed[i + 1] = 93
  BY <1>1, <1>2, <1>3
<1>5. ASSUME NEW k \in i + 2 .. n + 1 - 1
      PROVE  ~Parser!Closes(fed, i, k)
  <2>1. k \in i + 2 .. n /\ k \in 1 .. n /\ k - 1 \in 1 .. n
    BY <1>1, <1>3
  <2>2. fed'[k] = fed[k] /\ fed'[k - 1] = fed[k - 1]
    BY <1>1, <2>1
  <2> QED
    BY <1>2, <2>1, <2>2 DEF Parser!Closes, Parser!ESC, Parser!Backslash, Parser!BEL
<1> QED
  BY <1>3, <1>4, <1>5 DEF Parser!Payload, Parser!IsPair, Parser!ESC, Parser!RightBracket

\* A byte inside a string does nothing.
LEMMA PayloadHiddenStep ==
    ASSUME ParserTypes, StringSeen, Parser!Next
    PROVE  Parser!PayloadHidden'
<1> SUFFICES ASSUME Parser!Payload(fed, Len(fed))'
             PROVE  issued' = << >>
  BY DEF Parser!PayloadHidden, Parser!last
<1>1. \E b \in Parser!Bytes : Parser!Feed(b)
  BY DEF Parser!Next, Parser!FeedCsi, Parser!FeedEscByte, Parser!FeedText,
         Parser!FeedContinuation, Parser!FeedEscape, Parser!CsiDigit, Parser!CsiSemicolon,
         Parser!CsiFinal, Parser!CsiOther, Parser!FeedOsc
<1>2. ParserState \in {"Osc", "OscEscape"}
  BY <1>1, PayloadBefore DEF StringSeen
<1> QED
  BY <1>2 DEF Parser!Next, Parser!FeedCsi, Parser!FeedEscByte, Parser!FeedText,
              Parser!FeedContinuation, Parser!FeedEscape, Parser!CsiDigit,
              Parser!CsiSemicolon, Parser!CsiFinal, Parser!CsiOther, Parser!FeedOsc

\* A byte of text is drawn only when it is printable.
Showable(operation) ==
    operation[1] = "Put" => operation[2] \in Parser!Printable \/ operation[2] > 159

\* What the ground state draws is no control character.
LEMMA TextShowable ==
    ASSUME NEW b \in Nat
    PROVE  \A n \in DOMAIN Parser!GroundByte(b) : Showable(Parser!GroundByte(b)[n])
<1>1. PICK text : /\ text = Parser!TextByte(b)
                  /\ text = << >> \/ \E o : text = <<o>> /\ Showable(o)
  <2>1. CASE b \in Parser!Controls
    <3>1. Parser!TextByte(b) = << <<"Control", b>> >>
      <4>1. b \notin Parser!Printable
        BY <2>1 DEF Parser!Controls, Parser!Printable
      <4> QED
        BY <2>1, <4>1, Zenon DEF Parser!TextByte
    <3>2. Showable(<<"Control", b>>)
      BY DEF Showable
    <3> QED
      BY <3>1, <3>2
  <2>2. CASE b \in Parser!Printable
    <3>1. Parser!TextByte(b) = << <<"Put", b>> >>
      <4>1. b \notin Parser!Controls
        BY <2>2 DEF Parser!Controls, Parser!Printable
      <4> QED
        BY <2>2, <4>1, Zenon DEF Parser!TextByte
    <3>2. Showable(<<"Put", b>>)
      BY <2>2 DEF Showable
    <3> QED
      BY <3>1, <3>2
  <2>3. CASE b \notin Parser!Controls /\ b \notin Parser!Printable
    BY <2>3, Zenon DEF Parser!TextByte
  <2> QED
    BY <2>1, <2>2, <2>3
<1>2. PICK cut : /\ cut = (IF Utf8Remaining = 0 THEN << >>
                           ELSE << Parser!EmitCodePoint(Parser!Replacement) >>)
                 /\ cut = << >> \/ \E o : cut = <<o>> /\ Showable(o)
  <2>1. Showable(Parser!EmitCodePoint(Parser!Replacement))
    <3>1. Parser!EmitCodePoint(Parser!Replacement) = <<"Put", Parser!Replacement>>
      BY DEF Parser!EmitCodePoint, Parser!Replacement
    <3>2. Parser!Replacement > 159
      BY DEF Parser!Replacement
    <3> QED
      BY <3>1, <3>2 DEF Showable
  <2> QED
    BY <2>1
<1>3. Parser!GroundByte(b) = cut \o text
  BY <1>1, <1>2, Zenon DEF Parser!GroundByte
<1>4. CASE cut = << >> /\ text = << >>
  BY <1>3, <1>4
<1>5. ASSUME NEW o, Showable(o), cut = <<o>>, text = << >>
      PROVE  \A n \in DOMAIN (cut \o text) : Showable((cut \o text)[n])
  BY <1>5
<1>6. ASSUME NEW o, Showable(o), cut = << >>, text = <<o>>
      PROVE  \A n \in DOMAIN (cut \o text) : Showable((cut \o text)[n])
  BY <1>6
<1>7. ASSUME NEW o, Showable(o), NEW oo, Showable(oo), cut = <<o>>, text = <<oo>>
      PROVE  \A n \in DOMAIN (cut \o text) : Showable((cut \o text)[n])
  <2>1. <<o>> \in Seq({o, oo}) /\ <<oo>> \in Seq({o, oo})
    OBVIOUS
  <2>2. Len(cut \o text) = 2 /\ cut \o text \in Seq({o, oo})
    BY <1>7, <2>1
  <2>3. \A n \in DOMAIN (cut \o text) : (cut \o text)[n] \in {o, oo}
    BY <2>2
  <2> QED
    BY <1>7, <2>3
<1> QED
  BY <1>1, <1>2, <1>3, <1>4, <1>5, <1>6, <1>7

\* A byte puts nothing into a cell that cannot be shown.
LEMMA CellsShowableStep ==
    ASSUME ParserTypes, Parser!Next
    PROVE  Parser!CellsShowable'
<1>1. CASE issued' = << >>
  BY <1>1 DEF Parser!CellsShowable
<1>2. CASE \E b \in Parser!Bytes : issued' = Parser!GroundByte(b)
  <2>1. PICK b \in Parser!Bytes : issued' = Parser!GroundByte(b)
    BY <1>2
  <2>2. \A n \in DOMAIN issued' : Showable(issued'[n])
    BY <2>1, ParserConstants, TextShowable
  <2> QED
    BY <2>2 DEF Parser!CellsShowable, Showable
<1>3. CASE \E o : issued' = <<o>> /\ o[1] # "Put"
  BY <1>3 DEF Parser!CellsShowable
<1>4. CASE Parser!FeedContinuation
  <2>1. PICK b \in Parser!Bytes : Parser!Feed(b) /\ Parser!IsContinuation(b)
    BY <1>4 DEF Parser!FeedContinuation
  <2>2. fed'[Len(fed')] = b
    BY <2>1, FeedAppends DEF ParserTypes
  <2> QED
    BY <2>1, <2>2, Zenon DEF Parser!CellsShowable, Parser!IsContinuation, Parser!last
<1>5. Parser!FeedText => \E b \in Parser!Bytes : issued' = Parser!GroundByte(b)
  BY DEF Parser!FeedText
<1>6. Parser!FeedEscape => issued' = << >> \/ \E b : issued' = << <<"Esc", b>> >>
  BY DEF Parser!FeedEscape
<1>7. Parser!CsiFinal => \E b, c, d : issued' = << <<"Csi", b, c, d>> >>
  BY DEF Parser!CsiFinal
<1>8. \A b, c, d : <<"Esc", b>>[1] # "Put" /\ <<"Csi", b, c, d>>[1] # "Put"
  OBVIOUS
<1>9. Parser!FeedEscByte \/ Parser!CsiDigit \/ Parser!CsiSemicolon \/ Parser!CsiOther
        \/ Parser!FeedOsc => issued' = << >>
  BY DEF Parser!FeedEscByte, Parser!CsiDigit, Parser!CsiSemicolon, Parser!CsiOther,
         Parser!FeedOsc
<1> QED
  BY <1>1, <1>2, <1>3, <1>4, <1>5, <1>6, <1>7, <1>8, <1>9 DEF Parser!Next, Parser!FeedCsi

-----------------------------------------------------------------------------
(***************************************************************************)
(* What one byte does, by the state it finds.                              *)
(***************************************************************************)
\* Where one byte takes the parser.
Moved(state, b) ==
    CASE b = 27 -> IF state \in {"Osc", "OscEscape"} THEN "OscEscape" ELSE "Escape"
      [] b # 27 /\ state = "Ground"    -> "Ground"
      [] b # 27 /\ state = "Escape"    -> Parser!AfterEscape(b)
      [] b # 27 /\ state = "Csi"       -> IF b \in Parser!Finals THEN "Ground" ELSE "Csi"
      [] b # 27 /\ state = "Osc"       -> IF b = 7 THEN "Ground" ELSE "Osc"
      [] b # 27 /\ state = "OscEscape" -> Parser!AfterOscEscape(b)

\* What one byte does to the character that is not complete.
Utf8Moves(b) ==
    IF ParserState = "Ground" /\ b # 27
    THEN IF Utf8Remaining # 0 /\ Parser!IsContinuation(b)
         THEN /\ Utf8CodePoint' = Utf8CodePoint * 64 + (b % 64)
              /\ Utf8Remaining' = Utf8Remaining - 1
              /\ issued' = IF Utf8Remaining = 1 THEN << Parser!EmitCodePoint(Utf8CodePoint') >>
                                                ELSE << >>
         ELSE /\ Utf8Remaining' = Parser!Following(b)
              /\ Utf8CodePoint' = IF Parser!Following(b) = 0 THEN Utf8CodePoint
                                                             ELSE Parser!LeadBits(b)
              /\ issued' = Parser!GroundByte(b)
    ELSE /\ UNCHANGED Utf8CodePoint
         /\ Utf8Remaining' = 0 \/ (ParserState # "Ground" /\ UNCHANGED Utf8Remaining)

\* What one byte does to the parameters.
NumbersMove(b) ==
    /\ ParserState = "Escape" /\ b = 91 => Parser!ResetParser
    /\ ParserState = "Csi" /\ b # 27 =>
         \/ b \in Parser!Digits /\ Parser!AddDigit(b) /\ UNCHANGED <<ParameterCount, PrivateCsi>>
         \/ /\ b = 59 /\ Parser!StartParameter /\ UNCHANGED PrivateCsi
            /\ Parameters' = IF ParameterCount < MaxParams
                             THEN [Parameters EXCEPT ![ParameterCount + 1] = -1] ELSE Parameters
         \/ /\ b \in Parser!Finals
            /\ issued' = << <<"Csi", b, PrivateCsi, SubSeq(Parameters, 1, ParameterCount)>> >>
         \/ /\ b \notin Parser!Digits \cup Parser!Finals \cup {59}
            /\ PrivateCsi' = (PrivateCsi \/ (b = 63 /\ ParameterCount = 1 /\ Parameters[1] < 0))
            /\ UNCHANGED <<Parameters, ParameterCount>>

\* A step feeds one byte.
LEMMA ByteMoves ==
    ASSUME ParserTypes, Parser!Next
    PROVE  \E b \in Parser!Bytes :
             /\ Parser!Feed(b) /\ ParserState' = Moved(ParserState, b)
             /\ Utf8Moves(b) /\ NumbersMove(b)
<1>1. CASE Parser!FeedEscByte
  <2>1. 27 \in Parser!Bytes /\ Parser!Feed(27)
    BY <1>1 DEF Parser!FeedEscByte, Parser!ESC
  <2>2. ParserState' = Moved(ParserState, 27)
    BY <1>1 DEF Parser!FeedEscByte, Moved
  <2>3. Utf8Moves(27)
    <3>1. UNCHANGED Utf8CodePoint
      BY <1>1 DEF Parser!FeedEscByte
    <3>2. Utf8Remaining' = 0 \/ (ParserState # "Ground" /\ UNCHANGED Utf8Remaining)
      BY <1>1 DEF Parser!FeedEscByte
    <3> QED
      BY <3>1, <3>2 DEF Utf8Moves
  <2>4. NumbersMove(27)
    BY DEF NumbersMove
  <2> QED
    BY <2>1, <2>2, <2>3, <2>4
<1>2. CASE Parser!FeedText
  <2>1. PICK b \in Parser!Bytes :
         /\ b # 27 /\ Parser!Feed(b)
         /\ Utf8Remaining = 0 \/ ~Parser!IsContinuation(b)
         /\ issued' = Parser!GroundByte(b)
         /\ Utf8Remaining' = Parser!Following(b)
         /\ Utf8CodePoint' = IF Parser!Following(b) = 0 THEN Utf8CodePoint ELSE Parser!LeadBits(b)
    BY <1>2 DEF Parser!FeedText, Parser!ESC
  <2>2. ParserState = "Ground" /\ ParserState' = "Ground"
    BY <1>2 DEF Parser!FeedText
  <2>3. ParserState' = Moved(ParserState, b)
    BY <2>1, <2>2 DEF Moved
  <2>4. Utf8Moves(b)
    BY <2>1, <2>2 DEF Utf8Moves
  <2>5. NumbersMove(b)
    BY <2>2 DEF NumbersMove
  <2> QED
    BY <2>1, <2>3, <2>4, <2>5
<1>3. CASE Parser!FeedContinuation
  <2>1. PICK b \in Parser!Bytes :
         /\ Parser!Feed(b)
         /\ Parser!IsContinuation(b)
         /\ Utf8CodePoint' = Utf8CodePoint * 64 + (b % 64)
         /\ Utf8Remaining' = Utf8Remaining - 1
         /\ issued' = IF Utf8Remaining = 1 THEN << Parser!EmitCodePoint(Utf8CodePoint') >>
                                           ELSE << >>
    BY <1>3 DEF Parser!FeedContinuation
  <2>2. ParserState = "Ground" /\ ParserState' = "Ground" /\ Utf8Remaining # 0
    BY <1>3 DEF Parser!FeedContinuation
  <2>3. b # 27
    BY <2>1 DEF Parser!IsContinuation
  <2>4. ParserState' = Moved(ParserState, b)
    BY <2>2, <2>3 DEF Moved
  <2>5. Utf8Moves(b)
    BY <2>1, <2>2, <2>3 DEF Utf8Moves
  <2>6. NumbersMove(b)
    BY <2>2 DEF NumbersMove
  <2> QED
    BY <2>1, <2>4, <2>5, <2>6
<1>4. CASE Parser!FeedEscape
  <2>1. PICK b \in Parser!Bytes :
         /\ b # 27 /\ Parser!Feed(b) /\ ParserState' = Parser!AfterEscape(b)
         /\ b = 91 => Parser!ResetParser
    BY <1>4 DEF Parser!FeedEscape, Parser!ESC, Parser!LeftBracket
  <2>2. ParserState = "Escape" /\ UNCHANGED <<Utf8Remaining, Utf8CodePoint>>
    BY <1>4 DEF Parser!FeedEscape, Parser!utf8
  <2>3. ParserState' = Moved(ParserState, b)
    BY <2>1, <2>2 DEF Moved
  <2>4. Utf8Moves(b)
    BY <2>2 DEF Utf8Moves
  <2>5. NumbersMove(b)
    BY <2>1, <2>2 DEF NumbersMove
  <2> QED
    BY <2>1, <2>3, <2>4, <2>5
<1>5. CASE Parser!FeedCsi
  <2>1. ParserState = "Csi" /\ UNCHANGED <<Utf8Remaining, Utf8CodePoint>>
    BY <1>5 DEF Parser!FeedCsi, Parser!CsiDigit, Parser!CsiSemicolon, Parser!CsiFinal,
                Parser!CsiOther, Parser!utf8
  <2>2. \A b : Utf8Moves(b)
    BY <2>1 DEF Utf8Moves
  <2>3. CASE Parser!CsiDigit
    <3>1. PICK b \in Parser!Bytes : Parser!Feed(b) /\ b \in Parser!Digits /\ Parser!AddDigit(b)
      BY <2>3 DEF Parser!CsiDigit
    <3>2. UNCHANGED <<ParserState, ParameterCount, PrivateCsi>>
      BY <2>3 DEF Parser!CsiDigit
    <3>3. b # 27 /\ b \notin Parser!Finals
      BY <3>1 DEF Parser!Digits, Parser!Finals
    <3>4. ParserState' = Moved(ParserState, b)
      BY <2>1, <3>2, <3>3 DEF Moved
    <3>5. NumbersMove(b)
      BY <2>1, <3>1, <3>2 DEF NumbersMove
    <3> QED
      BY <2>2, <3>1, <3>4, <3>5
  <2>4. CASE Parser!CsiSemicolon
    <3>1. 59 \in Parser!Bytes /\ Parser!Feed(59) /\ Parser!StartParameter
      BY <2>4 DEF Parser!CsiSemicolon, Parser!Semicolon
    <3>2. /\ UNCHANGED <<ParserState, PrivateCsi>>
          /\ Parameters' = IF ParameterCount < MaxParams
                           THEN [Parameters EXCEPT ![ParameterCount + 1] = -1] ELSE Parameters
      BY <2>4 DEF Parser!CsiSemicolon
    <3>3. 59 # 27 /\ 59 \notin Parser!Finals
      BY DEF Parser!Finals
    <3>4. ParserState' = Moved(ParserState, 59)
      BY <2>1, <3>2, <3>3 DEF Moved
    <3>5. NumbersMove(59)
      BY <2>1, <3>1, <3>2 DEF NumbersMove
    <3> QED
      BY <2>2, <3>1, <3>4, <3>5
  <2>5. CASE Parser!CsiFinal
    <3>1. PICK b \in Parser!Bytes :
            /\ Parser!Feed(b) /\ b \in Parser!Finals
            /\ issued' = << <<"Csi", b, PrivateCsi, SubSeq(Parameters, 1, ParameterCount)>> >>
      BY <2>5, Zenon DEF Parser!CsiFinal
    <3>2. ParserState' = "Ground"
      BY <2>5 DEF Parser!CsiFinal
    <3>3. b # 27
      BY <3>1 DEF Parser!Finals
    <3>4. ParserState' = Moved(ParserState, b)
      BY <2>1, <3>1, <3>2, <3>3 DEF Moved
    <3>5. NumbersMove(b)
      BY <2>1, <3>1, <3>3, Zenon DEF NumbersMove
    <3> QED
      BY <2>2, <3>1, <3>4, <3>5
  <2>6. CASE Parser!CsiOther
    <3>1. PICK b \in Parser!Bytes :
            /\ Parser!Feed(b) /\ b # 27
            /\ b \notin Parser!Digits \cup Parser!Finals \cup {59}
            /\ PrivateCsi' = (PrivateCsi \/ (b = 63 /\ ParameterCount = 1 /\ Parameters[1] < 0))
      BY <2>6, Zenon DEF Parser!CsiOther, Parser!ESC, Parser!Semicolon, Parser!Question
    <3>2. UNCHANGED <<ParserState, Parameters, ParameterCount>>
      BY <2>6 DEF Parser!CsiOther
    <3>4. ParserState' = Moved(ParserState, b)
      BY <2>1, <3>1, <3>2 DEF Moved
    <3>5. NumbersMove(b)
      BY <2>1, <3>1, <3>2, Zenon DEF NumbersMove
    <3> QED
      BY <2>2, <3>1, <3>4, <3>5
  <2> QED
    BY <1>5, <2>3, <2>4, <2>5, <2>6 DEF Parser!FeedCsi
<1>6. CASE Parser!FeedOsc
  <2>1. PICK b \in Parser!Bytes :
          /\ b # 27 /\ Parser!Feed(b)
          /\ ParserState' = IF ParserState = "OscEscape" THEN Parser!AfterOscEscape(b)
                            ELSE IF b = 7 THEN "Ground" ELSE "Osc"
    BY <1>6 DEF Parser!FeedOsc, Parser!ESC, Parser!BEL
  <2>2. ParserState \in {"Osc", "OscEscape"} /\ UNCHANGED <<Utf8Remaining, Utf8CodePoint>>
    BY <1>6 DEF Parser!FeedOsc, Parser!utf8
  <2>3. ParserState' = Moved(ParserState, b)
    BY <2>1, <2>2 DEF Moved
  <2>4. Utf8Moves(b)
    BY <2>2 DEF Utf8Moves
  <2>5. NumbersMove(b)
    BY <2>2 DEF NumbersMove
  <2> QED
    BY <2>1, <2>3, <2>4, <2>5
<1> QED
  BY <1>1, <1>2, <1>3, <1>4, <1>5, <1>6 DEF Parser!Next

\* Feeding a byte leaves the input before it.
LEMMA FeedAgrees ==
    ASSUME fed \in Seq(Parser!Bytes), NEW b \in Parser!Bytes, Parser!Feed(b)
    PROVE  /\ AgreeTo(fed, fed', Len(fed)) /\ fed'[Len(fed) + 1] = b
           /\ Len(fed) \in Nat /\ Len(fed') = Len(fed) + 1
           /\ \A k \in 1 .. Len(fed) : fed[k] \in Parser!Bytes
BY FeedAppends DEF AgreeTo

\* The state tells what the byte fed belongs to.
LEMMA PlaceOfByte ==
    ASSUME ParserTypes, PlacesKnown, NEW b \in Parser!Bytes, Parser!Feed(b)
    PROVE  /\ Parser!Payload(fed', Len(fed) + 1) <=> ParserState \in {"Osc", "OscEscape"}
           /\ Parser!AfterEsc(fed', Len(fed) + 1) <=> ParserState = "Escape"
           /\ Parser!InCsi(fed', Len(fed) + 1) <=> ParserState = "Csi"
           /\ Parser!Text(fed', Len(fed) + 1) <=> ParserState = "Ground" /\ b # 27
           /\ \A i : Parser!CsiFrom(fed', i, Len(fed) + 1) <=> Parser!CsiFrom(fed, i, Len(fed) + 1)
           /\ \A i \in 1 .. Len(fed) :
                Parser!Awaits(fed', i, Len(fed) + 1) <=> Parser!Awaits(fed, i, Len(fed) + 1)
<1> DEFINE n == Len(fed)
<1>1. AgreeTo(fed, fed', n) /\ fed'[n + 1] = b /\ n \in Nat
  BY FeedAgrees DEF ParserTypes
<1>2. PICK j \in 1 .. n + 1 : j = n + 1
  BY <1>1
<1>3. /\ Parser!Payload(fed, j) <=> Parser!Payload(fed', j)
      /\ Parser!AfterEsc(fed, j) <=> Parser!AfterEsc(fed', j)
      /\ \A i : Parser!CsiFrom(fed, i, j) <=> Parser!CsiFrom(fed', i, j)
      /\ Parser!InCsi(fed, j) <=> Parser!InCsi(fed', j)
      /\ \A i \in 1 .. n : Parser!Awaits(fed, i, j) <=> Parser!Awaits(fed', i, j)
  BY <1>1, PlacesAgree, Zenon
<1>4. Parser!Payload(fed, j) <=> ParserState \in {"Osc", "OscEscape"}
  BY <1>2 DEF PlacesKnown, StringSeen, StringKept
<1>5. Parser!AfterEsc(fed, j) <=> ParserState = "Escape"
  <2>1. Parser!AfterEsc(fed, j) <=> n # 0 /\ fed[n] = 27 /\ ~Parser!Payload(fed, j)
    <3>1. j > 1 <=> n # 0
      BY <1>1, <1>2
    <3>2. j - 1 = n
      BY <1>1, <1>2
    <3> QED
      BY <3>1, <3>2 DEF Parser!AfterEsc, Parser!ESC
  <2> QED
    BY <1>4, <2>1 DEF PlacesKnown, EscapeSeen
<1>6. Parser!InCsi(fed, j) <=> ParserState = "Csi"
  BY <1>2 DEF PlacesKnown, SequenceSeen
<1>7. Parser!Text(fed', j) <=> ParserState = "Ground" /\ b # 27
  <2>1. fed'[j] = b
    BY <1>1, <1>2
  <2> QED
    BY <1>3, <1>4, <1>5, <1>6, <2>1 DEF Parser!Text, Parser!ESC, ParserTypes
<1> HIDE DEF n
<1>8. j = Len(fed) + 1
  BY <1>2 DEF n
<1> QED
  BY <1>3, <1>4, <1>5, <1>6, <1>7, <1>8 DEF n

\* An open string stays open while the parser waits for its end.
LEMMA StringKeptStep ==
    ASSUME ParserTypes, PlacesKnown, Parser!Next
    PROVE  StringKept'
<1> SUFFICES ASSUME ParserState' \in {"Osc", "OscEscape"}
             PROVE  Parser!Payload(fed', Len(fed') + 1)
  BY DEF StringKept
<1> DEFINE n == Len(fed)
<1>1. PICK b \in Parser!Bytes : Parser!Feed(b) /\ ParserState' = Moved(ParserState, b)
  BY ByteMoves
<1>2. AgreeTo(fed, fed', n) /\ fed'[n + 1] = b /\ n \in Nat /\ Len(fed') = n + 1
  BY <1>1, FeedAgrees DEF ParserTypes
<1>3. /\ Parser!Payload(fed', n + 1) <=> ParserState \in {"Osc", "OscEscape"}
      /\ Parser!AfterEsc(fed', n + 1) <=> ParserState = "Escape"
  BY <1>1, PlaceOfByte
<1>4. ParserState \in {"Escape", "Osc", "OscEscape"}
  BY <1>1 DEF ParserTypes, Moved, Parser!AfterEscape
<1>5. CASE ParserState = "Escape"
  <2>1. b = 93
    BY <1>1, <1>5 DEF Moved, Parser!AfterEscape, Parser!LeftBracket, Parser!RightBracket
  <2>2. n + 1 > 1 /\ fed'[n] = 27
    <3>1. n + 1 - 1 = n
      BY <1>2
    <3> QED
      BY <1>3, <1>5, <3>1 DEF Parser!AfterEsc, Parser!ESC
  <2>3. n \in 1 .. n + 2 - 2 /\ n + 2 .. n + 2 - 1 = {}
    BY <1>2, <2>2
  <2> QED
    BY <1>2, <2>1, <2>2, <2>3
       DEF Parser!Payload, Parser!IsPair, Parser!ESC, Parser!RightBracket
<1>6. CASE ParserState \in {"Osc", "OscEscape"}
  <2>1. PICK i \in 1 .. n + 1 - 2 :
          /\ fed'[i] = 27 /\ fed'[i + 1] = 93
          /\ \A k \in i + 2 .. n + 1 - 1 : ~Parser!Closes(fed', i, k)
    BY <1>3, <1>6 DEF Parser!Payload, Parser!IsPair, Parser!ESC, Parser!RightBracket
  <2>2. i \in Nat /\ i < n /\ i >= 1 /\ n + 1 - 1 = n
    BY <1>2, <2>1
  <2>3. ~Parser!Closes(fed', i, n + 1)
    <3>1. ParserState = "OscEscape" <=> fed'[n] = 27
      <4>1. n \in 1 .. n /\ n # 0
        BY <1>2, <2>2
      <4>2. fed'[n] = fed[n]
        BY <1>2, <4>1 DEF AgreeTo
      <4> QED
        BY <1>6, <4>1, <4>2 DEF PlacesKnown, EscapeSeen
    <3>2. fed'[n] = 27 => n + 1 > i + 2
      <4> SUFFICES ASSUME fed'[n] = 27 PROVE n + 1 > i + 2
        OBVIOUS
      <4>1. PICK m \in Nat : m = n
        BY <1>2
      <4>2. m # i + 1
        BY <2>1, <4>1
      <4>3. i < m
        BY <2>2, <4>1
      <4>4. m + 1 > i + 2
        BY <2>2, <4>2, <4>3
      <4> QED
        BY <4>1, <4>4
    <3>3. IF ParserState = "OscEscape" THEN b # 92 ELSE b # 7
      BY <1>1, <1>6 DEF Moved, Parser!AfterOscEscape, Parser!Backslash
    <3>4. n + 1 > i + 2 /\ fed'[n] = 27 <=> ParserState = "OscEscape"
      BY <3>1, <3>2
    <3> QED
      BY <1>2, <2>2, <3>3, <3>4 DEF Parser!Closes, Parser!ESC, Parser!Backslash, Parser!BEL
  <2>4. \A k \in i + 2 .. n + 2 - 1 : k \in i + 2 .. n + 1 - 1 \/ k = n + 1
    BY <1>2, <2>2
  <2>5. \A k \in i + 2 .. n + 2 - 1 : ~Parser!Closes(fed', i, k)
    BY <2>1, <2>3, <2>4
  <2>6. i \in 1 .. n + 2 - 2
    BY <1>2, <2>2
  <2>7. Parser!Payload(fed', n + 2)
    BY <2>1, <2>5, <2>6
       DEF Parser!Payload, Parser!IsPair, Parser!ESC, Parser!RightBracket
  <2>8. n + 1 + 1 = n + 2
    BY <1>2
  <2> QED
    BY <1>2, <2>7, <2>8
<1> QED
  BY <1>4, <1>5, <1>6

\* The state after a byte tells whether a control sequence is open.
LEMMA SequenceSeenStep ==
    ASSUME ParserTypes, PlacesKnown, Parser!Next
    PROVE  SequenceSeen'
<1>1. PICK b \in Parser!Bytes : Parser!Feed(b) /\ ParserState' = Moved(ParserState, b)
  BY ByteMoves
<1>2. PICK j \in Nat : /\ j = Len(fed) + 1 /\ j >= 1 /\ fed'[j] = b /\ Len(fed') + 1 = j + 1
                       /\ j >= 2 <=> Len(fed) # 0
  BY <1>1, FeedAgrees DEF ParserTypes
<1>3. /\ Parser!AfterEsc(fed', j) <=> ParserState = "Escape"
      /\ Parser!InCsi(fed', j) <=> ParserState = "Csi"
  BY <1>1, <1>2, PlaceOfByte
<1>4. \A i : Parser!CsiFrom(fed', i, j + 1) <=>
               \/ i = j /\ j >= 2 /\ Parser!AfterEsc(fed', j) /\ fed'[j] = 91
               \/ Parser!CsiFrom(fed', i, j) /\ fed'[j] # 27 /\ fed'[j] \notin Parser!Finals
  <2>1. fed'[j] = b /\ j >= 1
    BY <1>2
  <2> QED
    BY <2>1, CsiGrows
<1>5. \A k : Parser!InCsi(fed', k) <=> \E i : Parser!CsiFrom(fed', i, k)
  BY Zenon DEF Parser!InCsi, Parser!CsiFrom
<1>6. Parser!AfterEsc(fed', j) => j >= 2
  BY <1>2 DEF Parser!AfterEsc
<1>7. Parser!InCsi(fed', j + 1) <=>
        \/ ParserState = "Escape" /\ b = 91
        \/ ParserState = "Csi" /\ b # 27 /\ b \notin Parser!Finals
  BY <1>2, <1>3, <1>4, <1>5, <1>6
<1>8. Moved(ParserState, b) = "Csi" <=>
        \/ ParserState = "Escape" /\ b = 91
        \/ ParserState = "Csi" /\ b # 27 /\ b \notin Parser!Finals
  BY DEF Moved, ParserTypes, Parser!AfterEscape, Parser!AfterOscEscape, Parser!LeftBracket,
         Parser!RightBracket
<1> QED
  BY <1>1, <1>2, <1>7, <1>8 DEF SequenceSeen

-----------------------------------------------------------------------------
(***************************************************************************)
(* Characters.                                                             *)
(***************************************************************************)
\* What is known of a character to which the byte fed may belong.
LEMMA CharacterGoesOn ==
    ASSUME ParserTypes, PlacesKnown, CharacterSeen, NEW b \in Parser!Bytes, Parser!Feed(b),
           NEW i \in 1 .. Len(fed), Parser!Awaits(fed', i, Len(fed) + 1)
    PROVE  /\ ParserState = "Ground" /\ fed'[i] = fed[i]
           /\ Utf8Remaining = Parser!Following(fed[i]) - (Len(fed) - i) /\ Utf8Remaining # 0
           /\ Parser!IsContinuation(b) =>
                Parser!Decoded(fed', i, Len(fed) + 1) = Utf8CodePoint * 64 + (b % 64)
<1> DEFINE n == Len(fed)
<1>1. /\ AgreeTo(fed, fed', n) /\ fed'[n + 1] = b /\ n \in Nat
      /\ \A k \in 1 .. n : fed[k] \in Parser!Bytes
  BY FeedAgrees DEF ParserTypes
<1>2. Parser!Awaits(fed, i, n + 1)
  BY PlaceOfByte
<1>3. /\ ParserState = "Ground" /\ Utf8CodePoint = Parser!Decoded(fed, i, n)
      /\ Utf8Remaining = Parser!Following(fed[i]) - (n - i)
  BY <1>2 DEF CharacterSeen
<1>4. /\ \A k \in 1 .. n : fed[k] \in Nat /\ fed[k] =< 255
      /\ b \in Nat
  BY <1>1, ParserConstants
<1>5. Parser!Following(fed[i]) \in 0 .. 3 /\ Parser!Following(fed[i]) >= n + 1 - i
  <2>1. Parser!Following(fed[i]) \in 0 .. 3
    BY <1>4, LeadFits
  <2>2. Parser!Following(fed[i]) >= n + 1 - i
    BY <1>2 DEF Parser!Awaits
  <2> QED
    BY <2>1, <2>2
<1>6. n =< i + 2 /\ Utf8Remaining # 0
  BY <1>1, <1>3, <1>5
<1>7. fed'[i] = fed[i]
  BY <1>1 DEF AgreeTo
<1>8. Parser!IsContinuation(b) =>
        Parser!Decoded(fed', i, n + 1) = Parser!Decoded(fed, i, n) * 64 + (b % 64)
  BY <1>1, <1>4, <1>6, DecodedGrows
<1> QED
  BY <1>3, <1>6, <1>7, <1>8

\* A byte keeps what is known of the character that is not complete.
LEMMA CharacterSeenStep ==
    ASSUME ParserTypes, PlacesKnown, CharacterSeen, Parser!Next
    PROVE  CharacterSeen'
<1> DEFINE n == Len(fed)
<1>1. PICK b \in Parser!Bytes :
        Parser!Feed(b) /\ ParserState' = Moved(ParserState, b) /\ Utf8Moves(b)
  BY ByteMoves
<1>2. /\ AgreeTo(fed, fed', n) /\ fed'[n + 1] = b /\ n \in Nat /\ Len(fed') = n + 1
      /\ \A k \in 1 .. n : fed[k] \in Parser!Bytes
  BY <1>1, FeedAgrees DEF ParserTypes
<1>3. PICK j \in Nat : j = n + 1 /\ j >= 1
  BY <1>2
<1>4. \A i \in 1 .. j : Parser!Awaits(fed', i, j + 1) <=>
        \/ i = j /\ Parser!Text(fed', j) /\ Parser!Following(b) >= 1
        \/ /\ i < j /\ Parser!Awaits(fed', i, j) /\ Parser!IsContinuation(b)
           /\ Parser!Following(fed'[i]) >= j + 1 - i
  <2>1. fed'[j] = b
    BY <1>2, <1>3
  <2> QED
    BY <1>3, <2>1, AwaitsGrows
<1>5. Parser!Text(fed', j) <=> ParserState = "Ground" /\ b # 27
  BY <1>1, <1>3, PlaceOfByte
<1>6. b \in Nat /\ b =< 255 /\ \A i \in 1 .. n : Parser!Following(fed[i]) \in 0 .. 3
  BY <1>2, ParserConstants, LeadFits
<1>7. /\ Parser!Following(b) \in 0 .. 3
      /\ Parser!IsContinuation(b) => Parser!Following(b) = 0 /\ b # 27
  <2>1. Parser!Following(b) \in 0 .. 3
    BY <1>6, LeadFits
  <2>2. Parser!IsContinuation(b) =>
          b # 27 /\ b \notin 192 .. 223 /\ b \notin 224 .. 239 /\ b \notin 240 .. 247
    BY DEF Parser!IsContinuation
  <2> QED
    BY <2>1, <2>2 DEF Parser!Following
<1>8. \A i \in 1 .. n : Parser!Awaits(fed', i, j) =>
        /\ ParserState = "Ground" /\ fed'[i] = fed[i]
        /\ Utf8Remaining = Parser!Following(fed[i]) - (n - i) /\ Utf8Remaining # 0
        /\ Parser!IsContinuation(b) => Parser!Decoded(fed', i, j) = Utf8CodePoint * 64 + (b % 64)
  BY <1>1, <1>3, CharacterGoesOn
<1>9. ASSUME NEW i \in 1 .. j, Parser!Awaits(fed', i, j + 1)
      PROVE  /\ ParserState' = "Ground" /\ Utf8Remaining' = Parser!Following(fed'[i]) - (j - i)
             /\ Utf8CodePoint' = Parser!Decoded(fed', i, j)
  <2>1. CASE i = j
    <3>1. Parser!Text(fed', j) /\ Parser!Following(b) >= 1 /\ ~Parser!IsContinuation(b)
      BY <1>3, <1>4, <1>7, <1>9, <2>1
    <3>2. ParserState = "Ground" /\ b # 27
      BY <1>5, <3>1
    <3>3. Utf8Remaining' = Parser!Following(b) /\ Utf8CodePoint' = Parser!LeadBits(b)
      BY <1>1, <1>7, <3>1, <3>2 DEF Utf8Moves
    <3>4. ParserState' = "Ground"
      BY <1>1, <3>2 DEF Moved
    <3>5. Parser!Decoded(fed', i, j) = Parser!LeadBits(b) /\ fed'[i] = b /\ j - i = 0
      BY <1>2, <1>3, <2>1 DEF Parser!Decoded
    <3> QED
      BY <1>7, <3>3, <3>4, <3>5
  <2>2. CASE i # j
    <3>1. i \in 1 .. n /\ i < j
      BY <1>2, <1>3, <2>2
    <3>2. Parser!Awaits(fed', i, j) /\ Parser!IsContinuation(b)
      BY <1>4, <1>9, <2>2
    <3>3. /\ ParserState = "Ground" /\ fed'[i] = fed[i] /\ b # 27
          /\ Utf8Remaining = Parser!Following(fed[i]) - (n - i) /\ Utf8Remaining # 0
          /\ Parser!Decoded(fed', i, j) = Utf8CodePoint * 64 + (b % 64)
      BY <1>7, <1>8, <3>1, <3>2
    <3>4. /\ Utf8CodePoint' = Utf8CodePoint * 64 + (b % 64)
          /\ Utf8Remaining' = Utf8Remaining - 1
      BY <1>1, <3>2, <3>3 DEF Utf8Moves
    <3>5. ParserState' = "Ground"
      BY <1>1, <3>3 DEF Moved
    <3>6. Utf8Remaining - 1 = Parser!Following(fed'[i]) - (j - i)
      <4>1. PICK f \in 0 .. 3 : f = Parser!Following(fed[i]) /\ f = Parser!Following(fed'[i])
        BY <1>6, <3>1, <3>3
      <4>2. Utf8Remaining = f - (n - i)
        BY <3>3, <4>1
      <4> HIDE DEF n
      <4>3. Utf8Remaining - 1 = f - (j - i)
        BY <1>2, <1>3, <3>1, <4>2
      <4> QED
        BY <4>1, <4>3
    <3> QED
      BY <3>3, <3>4, <3>5, <3>6
  <2> QED
    BY <2>1, <2>2
<1>10. ASSUME Utf8Remaining' # 0
       PROVE  \E i \in 1 .. j : Parser!Awaits(fed', i, j + 1)
  <2>1. ParserState = "Ground" /\ b # 27
    <3>1. CASE Utf8Remaining = 0
      BY <1>1, <1>10, <3>1 DEF Utf8Moves
    <3>2. CASE Utf8Remaining # 0
      <4>1. ParserState = "Ground"
        BY <3>2 DEF CharacterSeen
      <4> QED
        BY <1>1, <1>10, <4>1 DEF Utf8Moves
    <3> QED
      BY <3>1, <3>2
  <2>2. Parser!Text(fed', j)
    BY <1>5, <2>1
  <2>3. CASE Utf8Remaining # 0 /\ Parser!IsContinuation(b)
    <3>1. PICK i \in 1 .. n : Parser!Awaits(fed, i, n + 1)
      BY <2>3 DEF CharacterSeen
    <3>2. Parser!Awaits(fed', i, j)
      BY <1>1, <1>3, <3>1, PlaceOfByte
    <3>3. fed'[i] = fed[i] /\ Utf8Remaining = Parser!Following(fed[i]) - (n - i)
      BY <1>8, <3>2
    <3>4. Utf8Remaining' = Utf8Remaining - 1 /\ Utf8Remaining \in 0 .. 3
      BY <1>1, <2>1, <2>3 DEF Utf8Moves, ParserTypes
    <3>5. Parser!Following(fed'[i]) >= j + 1 - i
      <4>1. PICK f \in 0 .. 3 : f = Parser!Following(fed[i]) /\ f = Parser!Following(fed'[i])
        BY <1>6, <3>3
      <4>2. Utf8Remaining = f - (n - i) /\ Utf8Remaining - 1 # 0 /\ Utf8Remaining \in 1 .. 3
        BY <1>10, <2>3, <3>3, <3>4, <4>1
      <4> HIDE DEF n
      <4>3. f >= j + 1 - i
        BY <1>2, <1>3, <4>2
      <4> QED
        BY <4>1, <4>3
    <3>6. i \in 1 .. j /\ i < j
      BY <1>2, <1>3
    <3> QED
      BY <1>4, <2>3, <3>2, <3>5, <3>6
  <2>4. CASE ~(Utf8Remaining # 0 /\ Parser!IsContinuation(b))
    <3>1. Utf8Remaining' = Parser!Following(b)
      BY <1>1, <2>1, <2>4 DEF Utf8Moves
    <3>2. Parser!Following(b) >= 1 /\ j \in 1 .. j
      BY <1>3, <1>7, <1>10, <3>1
    <3> QED
      BY <1>4, <2>2, <3>2
  <2> QED
    BY <2>3, <2>4
<1>11. Len(fed') = j
  BY <1>2, <1>3
<1> QED
  BY <1>9, <1>10, <1>11 DEF CharacterSeen

\* What byte j of the text, b, shows.
Draws(s, j, b) ==
    LET begins == {i \in 1 .. j : Parser!Awaits(s, i, j)}
    IN IF begins = {} THEN Parser!TextByte(b)
       ELSE LET i == CHOOSE i \in begins : TRUE
            IN IF ~Parser!IsContinuation(b)
               THEN << <<"Put", Parser!Replacement>> >> \o Parser!TextByte(b)
               ELSE IF Parser!Following(s[i]) > j - i THEN << >>
               ELSE << <<"Put", Parser!Shown(Parser!Decoded(s, i, j))>> >>

\* A byte of text shows what the rules of UTF-8 say.
LEMMA TextDecodedStep ==
    ASSUME ParserTypes, PlacesKnown, CharacterSeen, Parser!Next
    PROVE  Parser!TextDecoded'
<1> DEFINE n == Len(fed)
           begins == {i \in 1 .. n + 1 : Parser!Awaits(fed', i, n + 1)}
<1>1. PICK b \in Parser!Bytes : Parser!Feed(b) /\ Utf8Moves(b)
  BY ByteMoves
<1>2. /\ fed'[n + 1] = b /\ n \in Nat /\ Len(fed') = n + 1
  BY <1>1, FeedAgrees DEF ParserTypes
<1> DEFINE i == CHOOSE i \in begins : TRUE
           Right == issued' =
                      IF begins = {} THEN Parser!TextByte(b)
                      ELSE IF ~Parser!IsContinuation(b)
                      THEN << <<"Put", Parser!Replacement>> >> \o Parser!TextByte(b)
                      ELSE IF Parser!Following(fed'[i]) > n + 1 - i THEN << >>
                      ELSE << <<"Put", Parser!Shown(Parser!Decoded(fed', i, n + 1))>> >>
<1>t. ASSUME Parser!Text(fed', n + 1) => issued' = Draws(fed', n + 1, b)
      PROVE  Parser!TextDecoded'
  <2>1. Parser!Text(fed', Len(fed')) => issued' = Draws(fed', Len(fed'), fed'[Len(fed')])
    BY <1>2, <1>t
  <2> QED
    BY <2>1, Zenon DEF Parser!TextDecoded, Parser!last, Draws
<1>u. ASSUME Right
      PROVE  issued' = Draws(fed', n + 1, b)
  BY <1>u DEF Draws
<1> SUFFICES ASSUME Parser!Text(fed', n + 1)
             PROVE  Right
  BY <1>t, <1>u
<1> HIDE DEF i
<1>3. ParserState = "Ground" /\ b # 27
  BY <1>1, PlaceOfByte
<1>4. \A h : h \in begins <=> h \in 1 .. n /\ Parser!Awaits(fed', h, n + 1)
  <2>1. \A h : Parser!Awaits(fed', h, n + 1) => h < n + 1
    BY DEF Parser!Awaits
  <2> QED
    BY <1>2, <2>1
<1>5. Utf8Remaining # 0 => begins # {}
  <2> SUFFICES ASSUME Utf8Remaining # 0 PROVE begins # {}
    OBVIOUS
  <2>1. PICK h \in 1 .. n : Parser!Awaits(fed, h, n + 1)
    BY DEF CharacterSeen
  <2>2. Parser!Awaits(fed', h, n + 1)
    BY <1>1, <2>1, PlaceOfByte
  <2> QED
    BY <1>4, <2>2
<1>6. CASE begins = {}
  <2>1. Utf8Remaining = 0
    BY <1>5, <1>6
  <2>2. issued' = Parser!GroundByte(b)
    BY <1>1, <1>3, <2>1 DEF Utf8Moves
  <2>3. Parser!GroundByte(b) = Parser!TextByte(b)
    <3>1. Parser!GroundByte(b) = << >> \o Parser!TextByte(b)
      BY <2>1, Zenon DEF Parser!GroundByte
    <3>2. << >> \o Parser!TextByte(b) = Parser!TextByte(b)
      <4>1. CASE Parser!TextByte(b) = << >>
        BY <4>1
      <4>2. ASSUME NEW o, Parser!TextByte(b) = <<o>>
            PROVE  << >> \o Parser!TextByte(b) = Parser!TextByte(b)
        BY <4>2
      <4>3. Parser!TextByte(b) = << >> \/ \E o : Parser!TextByte(b) = <<o>>
        BY DEF Parser!TextByte
      <4> QED
        BY <4>1, <4>2, <4>3
    <3> QED
      BY <3>1, <3>2
  <2> QED
    BY <1>6, <2>2, <2>3
<1>7. CASE begins # {}
  <2>1. i \in 1 .. n /\ Parser!Awaits(fed', i, n + 1)
    <3>1. i \in begins
      BY <1>7, Zenon DEF i
    <3> QED
      BY <1>4, <3>1
  <2>2. /\ fed'[i] = fed[i] /\ Utf8Remaining # 0
        /\ Utf8Remaining = Parser!Following(fed[i]) - (n - i)
        /\ Parser!IsContinuation(b) =>
             Parser!Decoded(fed', i, n + 1) = Utf8CodePoint * 64 + (b % 64)
    BY <1>1, <2>1, CharacterGoesOn
  <2>3. CASE ~Parser!IsContinuation(b)
    <3>1. issued' = Parser!GroundByte(b)
      BY <1>1, <1>3, <2>3 DEF Utf8Moves
    <3>2. Parser!EmitCodePoint(Parser!Replacement) = <<"Put", Parser!Replacement>>
      BY DEF Parser!EmitCodePoint, Parser!Replacement
    <3>3. Parser!GroundByte(b) = << <<"Put", Parser!Replacement>> >> \o Parser!TextByte(b)
      BY <2>2, <3>2 DEF Parser!GroundByte
    <3> QED
      BY <1>7, <2>3, <3>1, <3>3
  <2>4. CASE Parser!IsContinuation(b)
    <3>1. /\ Utf8CodePoint' = Utf8CodePoint * 64 + (b % 64)
          /\ issued' = IF Utf8Remaining = 1 THEN << Parser!EmitCodePoint(Utf8CodePoint') >>
                                            ELSE << >>
      BY <1>1, <1>3, <2>2, <2>4 DEF Utf8Moves
    <3>2. Utf8Remaining = 1 <=> ~(Parser!Following(fed'[i]) > n + 1 - i)
      <4>1. Parser!Following(fed[i]) \in 0 .. 3
        BY <1>1, <2>1, FeedAgrees, ParserConstants, LeadFits DEF ParserTypes
      <4>2. PICK f \in 0 .. 3 : f = Parser!Following(fed[i]) /\ f = Parser!Following(fed'[i])
        BY <2>2, <4>1
      <4>3. Utf8Remaining = f - (n - i) /\ Utf8Remaining \in 1 .. 3
        BY <2>2, <4>2 DEF ParserTypes
      <4> HIDE DEF n
      <4>4. i \in Nat /\ f \in Nat
        BY <1>2, <2>1
      <4>5. Utf8Remaining = 1 <=> ~(f > n + 1 - i)
        BY <1>2, <4>3, <4>4
      <4> QED
        BY <4>2, <4>5
    <3>3. Utf8CodePoint' = Parser!Decoded(fed', i, n + 1)
      BY <2>2, <2>4, <3>1
    <3>4. Utf8CodePoint' \in Nat
      <4>1. Utf8CodePoint \in Nat /\ b \in Nat
        BY ParserConstants DEF ParserTypes, PointFits
      <4>2. b % 64 \in Nat
        BY <4>1
      <4> QED
        BY <3>1, <4>1, <4>2
    <3>5. Parser!EmitCodePoint(Utf8CodePoint') = <<"Put", Parser!Shown(Utf8CodePoint')>>
      BY <3>4, EmitShows, Zenon
    <3> HIDE DEF begins
    <3> QED
      BY <1>7, <2>4, <3>1, <3>2, <3>3, <3>5
  <2> QED
    BY <2>3, <2>4
<1> QED
  BY <1>6, <1>7

-----------------------------------------------------------------------------
(***************************************************************************)
(* Parameters.                                                             *)
(***************************************************************************)
\* A byte of a control sequence that does not end it adds to what the parser holds.
LEMMA HoldsMore ==
    ASSUME ParserTypes, NEW b \in Parser!Bytes, Parser!Feed(b), NumbersMove(b),
           ParserState = "Csi", b # 27, b \notin Parser!Finals, NEW i \in 1 .. Len(fed),
           Holds(fed, i, Len(fed) + 1, ParameterCount, Parameters, PrivateCsi)
    PROVE  Holds(fed', i, Len(fed) + 2, ParameterCount', Parameters', PrivateCsi')
<1> DEFINE n == Len(fed)
           p(m) == Parser!Spelled(fed, i, n + 1, m)
           q(m) == Parser!Spelled(fed', i, n + 2, m)
<1>0. MaxParams \in Nat /\ 2 =< MaxParams /\ ValueLimit \in Nat /\ 1 =< ValueLimit
  BY ParserConstants
<1>1. AgreeTo(fed, fed', n) /\ fed'[n + 1] = b /\ n \in Nat
  BY FeedAgrees DEF ParserTypes
<1>2. /\ ParameterCount \in 1 .. MaxParams /\ PrivateCsi \in BOOLEAN
      /\ Parameters \in [1 .. MaxParams -> -1 .. 10 * ValueLimit - 1]
  BY DEF ParserTypes
<1>3. /\ ParameterCount = Parser!Slot(fed, i, n + 1)
      /\ \A m \in 1 .. MaxParams : p(m) = IF m =< ParameterCount THEN Parameters[m] ELSE -1
      /\ PrivateCsi = Parser!SpelledPrivate(fed, i, n + 1)
      /\ Parser!Blank(fed, i, n + 1) <=> ParameterCount = 1 /\ Parameters[1] = -1
  BY Zenon DEF Holds
<1>4. Parser!Slot(fed', i, n + 2) = IF b = 59 /\ ParameterCount < MaxParams
                                     THEN ParameterCount + 1 ELSE ParameterCount
  <2>1. Parser!Slot(fed', i, n + 1) = ParameterCount
    <3>1. i \in Nat /\ n + 1 \in 1 .. n + 1
      BY <1>1
    <3> QED
      BY <1>1, <1>3, <3>1, SlotAgrees
  <2>2. n + 1 \in Nat /\ n + 1 > i /\ i \in Nat /\ n + 1 + 1 = n + 2
    BY <1>1
  <2>3. Parser!Slot(fed', i, n + 1 + 1) =
          IF fed'[n + 1] = 59 /\ Parser!Slot(fed', i, n + 1) < MaxParams
          THEN Parser!Slot(fed', i, n + 1) + 1 ELSE Parser!Slot(fed', i, n + 1)
    BY <2>2, SlotGrows
  <2> HIDE DEF n
  <2> QED
    BY <1>1, <2>1, <2>2, <2>3
<1>5. \A m : q(m) = IF b \in Parser!Digits /\ ParameterCount = m
                    THEN WithDigit(IF p(m) = -1 THEN 0 ELSE p(m), b) ELSE p(m)
  <2> SUFFICES ASSUME NEW m
               PROVE  q(m) = IF b \in Parser!Digits /\ ParameterCount = m
                             THEN WithDigit(IF p(m) = -1 THEN 0 ELSE p(m), b) ELSE p(m)
    OBVIOUS
  <2>1. q(m) = IF fed'[n + 1] \in Parser!Digits /\ Parser!Slot(fed, i, n + 1) = m
               THEN WithDigit(IF p(m) = -1 THEN 0 ELSE p(m), fed'[n + 1]) ELSE p(m)
    BY <1>1, SpelledGrows
  <2> HIDE DEF p, q
  <2> QED
    BY <1>1, <1>3, <2>1
<1>6. /\ Parser!Blank(fed', i, n + 2) <=>
           Parser!Blank(fed, i, n + 1) /\ b \notin Parser!Digits \cup {59}
      /\ Parser!SpelledPrivate(fed', i, n + 2) <=>
           Parser!SpelledPrivate(fed, i, n + 1) \/ (b = 63 /\ Parser!Blank(fed, i, n + 1))
  BY <1>1, BlankAgrees
<1>7. /\ 59 \notin Parser!Digits /\ 63 \notin Parser!Digits
      /\ b \in Parser!Digits => b \in 48 .. 57
  BY DEF Parser!Digits
<1>8. (Parser!SpelledPrivate(fed, i, n + 1)) \in BOOLEAN
        /\ (Parser!SpelledPrivate(fed', i, n + 2)) \in BOOLEAN
  BY DEF Parser!SpelledPrivate
<1> DEFINE slot == Parser!Slot(fed', i, n + 2)
           blank == Parser!Blank(fed, i, n + 1)
           blank2 == Parser!Blank(fed', i, n + 2)
           priv == Parser!SpelledPrivate(fed, i, n + 1)
           priv2 == Parser!SpelledPrivate(fed', i, n + 2)
           Done == /\ ParameterCount' = slot
                   /\ \A m \in 1 .. MaxParams :
                        q(m) = IF m =< ParameterCount' THEN Parameters'[m] ELSE -1
                   /\ PrivateCsi' = priv2
                   /\ blank2 <=> ParameterCount' = 1 /\ Parameters'[1] = -1
<1>9. ASSUME Done
      PROVE  Holds(fed', i, n + 2, ParameterCount', Parameters', PrivateCsi')
  BY <1>9, Zenon DEF Holds
<1> SUFFICES Done
  BY <1>9
<1> HIDE DEF n, p, q, slot, blank, blank2, priv, priv2
<1>10. CASE b \in Parser!Digits
  <2>1. UNCHANGED <<ParameterCount, PrivateCsi>> /\ Parser!AddDigit(b)
    BY <1>7, <1>10 DEF NumbersMove
  <2>2. b # 59 /\ b # 63 /\ b \in 48 .. 57
    BY <1>7, <1>10
  <2>3. PICK v \in Nat : /\ v = Parser!Max({Parameters[ParameterCount], 0})
                         /\ v = IF Parameters[ParameterCount] = -1 THEN 0
                                ELSE Parameters[ParameterCount]
    <3>1. Parameters[ParameterCount] \in Int /\ Parameters[ParameterCount] >= -1
      BY <1>0, <1>2
    <3> QED
      BY <3>1, MaxOfTwo
  <2>4. Parameters' = [Parameters EXCEPT ![ParameterCount] = WithDigit(v, b)]
    <3>1. Parameters' = [Parameters EXCEPT ![ParameterCount] =
                            IF v < ValueLimit THEN v * 10 + (b - 48) ELSE v]
      BY <2>1, <2>3, Zenon DEF Parser!AddDigit
    <3> QED
      BY <3>1 DEF WithDigit
  <2>5. WithDigit(v, b) \in Nat
    <3>1. b - 48 \in Nat /\ v * 10 \in Nat
      BY <2>2
    <3>2. v * 10 + (b - 48) \in Nat
      BY <3>1
    <3> QED
      BY <3>2, Zenon DEF WithDigit
  <2>6. p(ParameterCount) = Parameters[ParameterCount]
    BY <1>0, <1>2, <1>3
  <2>7. q(ParameterCount) = WithDigit(v, b)
    BY <1>5, <1>10, <2>3, <2>6
  <2>8. \A m : m # ParameterCount => q(m) = p(m)
    BY <1>5
  <2>9. \A m \in 1 .. MaxParams : q(m) = IF m =< ParameterCount' THEN Parameters'[m] ELSE -1
    BY <1>0, <1>2, <1>3, <2>1, <2>4, <2>7, <2>8
  <2>10. ParameterCount' = slot
    BY <1>4, <2>1, <2>2 DEF slot
  <2>11. PrivateCsi' = priv2
    BY <1>3, <1>6, <1>8, <2>1, <2>2 DEF priv, priv2, blank
  <2>12. blank2 <=> ParameterCount' = 1 /\ Parameters'[1] = -1
    <3>1. ~blank2
      BY <1>6, <1>10 DEF blank, blank2
    <3>2. ParameterCount' = 1 => Parameters'[1] # -1
      BY <1>0, <1>2, <2>1, <2>4, <2>5
    <3> QED
      BY <3>1, <3>2
  <2> QED
    BY <2>9, <2>10, <2>11, <2>12
<1>11. CASE b = 59
  <2>0. b \notin Parser!Digits /\ b # 63 /\ b \in Parser!Digits \cup {59}
    BY <1>7, <1>11
  <2>1. /\ Parser!StartParameter /\ UNCHANGED PrivateCsi
        /\ Parameters' = IF ParameterCount < MaxParams
                         THEN [Parameters EXCEPT ![ParameterCount + 1] = -1] ELSE Parameters
    BY <1>11, <2>0 DEF NumbersMove
  <2>2. ParameterCount' = IF ParameterCount < MaxParams THEN ParameterCount + 1 ELSE ParameterCount
    BY <2>1 DEF Parser!StartParameter
  <2>3. \A m : q(m) = p(m)
    BY <1>5, <2>0
  <2>4. \A m \in 1 .. MaxParams : q(m) = IF m =< ParameterCount' THEN Parameters'[m] ELSE -1
    <3>1. CASE ParameterCount < MaxParams
      BY <1>0, <1>2, <1>3, <2>1, <2>2, <2>3, <3>1
    <3>2. CASE ~(ParameterCount < MaxParams)
      BY <1>0, <1>2, <1>3, <2>1, <2>2, <2>3, <3>2
    <3> QED
      BY <3>1, <3>2
  <2>5. ParameterCount' = slot
    BY <1>4, <1>11, <2>2 DEF slot
  <2>6. PrivateCsi' = priv2
    BY <1>3, <1>6, <1>8, <2>0, <2>1 DEF priv, priv2, blank
  <2>7. ~blank2 /\ ParameterCount' # 1
    <3>1. ~blank2
      BY <1>6, <2>0 DEF blank, blank2
    <3>2. ParameterCount' # 1
      BY <1>0, <1>2, <2>2
    <3> QED
      BY <3>1, <3>2
  <2> QED
    BY <2>4, <2>5, <2>6, <2>7
<1>12. CASE b \notin Parser!Digits /\ b # 59
  <2>1. /\ PrivateCsi' = (PrivateCsi \/ (b = 63 /\ ParameterCount = 1 /\ Parameters[1] < 0))
        /\ UNCHANGED <<Parameters, ParameterCount>>
    BY <1>12, Zenon DEF NumbersMove
  <2>2. \A m : q(m) = p(m)
    BY <1>5, <1>12
  <2>3. \A m \in 1 .. MaxParams : q(m) = IF m =< ParameterCount' THEN Parameters'[m] ELSE -1
    BY <1>3, <2>1, <2>2
  <2>4. ParameterCount' = slot
    BY <1>4, <1>12, <2>1 DEF slot
  <2>5. Parameters[1] < 0 <=> Parameters[1] = -1
    BY <1>0, <1>2
  <2>6. PrivateCsi' = priv2
    <3>1. priv2 <=> priv \/ (b = 63 /\ blank)
      BY <1>6 DEF priv, priv2, blank
    <3>2. (blank <=> ParameterCount = 1 /\ Parameters[1] = -1) /\ PrivateCsi = priv
      BY <1>3 DEF priv, blank
    <3>3. priv \in BOOLEAN /\ priv2 \in BOOLEAN
      BY <1>8 DEF priv, priv2
    <3> QED
      BY <2>1, <2>5, <3>1, <3>2, <3>3, Zenon
  <2>7. blank2 <=> ParameterCount' = 1 /\ Parameters'[1] = -1
    <3>1. blank2 <=> blank
      BY <1>6, <1>12 DEF blank, blank2
    <3> QED
      BY <1>3, <2>1, <3>1 DEF blank
  <2> QED
    BY <2>3, <2>4, <2>6, <2>7
<1> QED
  BY <1>10, <1>11, <1>12

\* A byte keeps what is known of the parameters of an open control sequence.
LEMMA ParametersSeenStep ==
    ASSUME ParserTypes, PlacesKnown, ParametersSeen, Parser!Next
    PROVE  ParametersSeen'
<1> DEFINE n == Len(fed)
<1>1. PICK b \in Parser!Bytes : Parser!Feed(b) /\ NumbersMove(b)
  BY ByteMoves
<1>2. fed'[n + 1] = b /\ n \in Nat /\ Len(fed') = n + 1 /\ n + 1 + 1 = n + 2 /\ n + 1 >= 1
  BY <1>1, FeedAgrees DEF ParserTypes
<1>3. ASSUME NEW i \in 1 .. n + 1, Parser!CsiFrom(fed', i, n + 2)
      PROVE  Holds(fed', i, n + 2, ParameterCount', Parameters', PrivateCsi')
  <2>1. \/ i = n + 1 /\ Parser!AfterEsc(fed', n + 1) /\ b = 91
        \/ Parser!CsiFrom(fed', i, n + 1) /\ b # 27 /\ b \notin Parser!Finals
    <3>1. n + 1 \in Nat
      BY <1>2
    <3>2. Parser!CsiFrom(fed', i, n + 1 + 1) <=>
            \/ i = n + 1 /\ n + 1 >= 2 /\ Parser!AfterEsc(fed', n + 1) /\ fed'[n + 1] = 91
            \/ /\ Parser!CsiFrom(fed', i, n + 1)
               /\ fed'[n + 1] # 27 /\ fed'[n + 1] \notin Parser!Finals
      BY <1>2, <3>1, CsiGrows
    <3> HIDE DEF n
    <3> QED
      BY <1>2, <1>3, <3>2
  <2>2. CASE i = n + 1 /\ Parser!AfterEsc(fed', n + 1) /\ b = 91
    <3>1. ParserState = "Escape"
      BY <1>1, <2>2, PlaceOfByte
    <3>2. Parser!ResetParser
      BY <1>1, <2>2, <3>1 DEF NumbersMove
    <3>3. MaxParams \in Nat /\ 2 =< MaxParams
      BY ParserConstants
    <3>4. ParameterCount' = 1 /\ Parameters'[1] = -1 /\ (PrivateCsi' <=> FALSE)
          /\ \A m \in 1 .. MaxParams : Parameters'[m] = -1
      BY <3>2, <3>3 DEF Parser!ResetParser
    <3>5. PrivateCsi' = FALSE
      BY <3>2 DEF Parser!ResetParser
    <3>6. i \in Nat /\ i + 1 = n + 2
      BY <1>2, <2>2
    <3>7. /\ Parser!Slot(fed', i, i + 1) = 1
          /\ Parser!Blank(fed', i, i + 1) /\ ~Parser!SpelledPrivate(fed', i, i + 1)
      BY <3>6, SlotGrows, BlankFirst
    <3>8. \A m : Parser!Spelled(fed', i, i + 1, m) = -1
      BY <3>6, SpelledFirst
    <3>9. FALSE = Parser!SpelledPrivate(fed', i, i + 1)
      BY <3>7 DEF Parser!SpelledPrivate
    <3>10. Holds(fed', i, i + 1, ParameterCount', Parameters', PrivateCsi')
      BY <3>4, <3>5, <3>7, <3>8, <3>9 DEF Holds
    <3> HIDE DEF n
    <3> QED
      BY <3>6, <3>10
  <2>3. CASE Parser!CsiFrom(fed', i, n + 1) /\ b # 27 /\ b \notin Parser!Finals
    <3>1. Parser!CsiFrom(fed, i, n + 1) /\ i \in 1 .. n
      <4>1. Parser!CsiFrom(fed, i, n + 1)
        BY <1>1, <2>3, PlaceOfByte
      <4> QED
        BY <1>2, <4>1 DEF Parser!CsiFrom
    <3>2. ParserState = "Csi"
      <4>1. Parser!InCsi(fed, n + 1)
        BY <3>1 DEF Parser!InCsi, Parser!CsiFrom
      <4> QED
        BY <4>1 DEF PlacesKnown, SequenceSeen
    <3>3. Holds(fed, i, n + 1, ParameterCount, Parameters, PrivateCsi)
      BY <3>1 DEF ParametersSeen
    <3> QED
      BY <1>1, <2>3, <3>1, <3>2, <3>3, HoldsMore
  <2> QED
    BY <2>1, <2>2, <2>3
<1>4. Len(fed') + 1 = n + 2
  BY <1>2
<1> HIDE DEF n
<1> QED
  BY <1>2, <1>3, <1>4 DEF ParametersSeen

\* The final byte carries out the sequence with what it spells.
LEMMA SequenceSpelledStep ==
    ASSUME ParserTypes, PlacesKnown, ParametersSeen, Parser!Next
    PROVE  Parser!SequenceSpelled'
<1> DEFINE n == Len(fed)
           private(i) == Parser!SpelledPrivate(fed', i, n + 1)
           spelled(i) == [m \in 1 .. Parser!Slot(fed', i, n + 1) |->
                            Parser!Spelled(fed', i, n + 1, m)]
<1>1. PICK b \in Parser!Bytes : Parser!Feed(b) /\ NumbersMove(b)
  BY ByteMoves
<1>2. /\ AgreeTo(fed, fed', n) /\ fed'[n + 1] = b /\ n \in Nat /\ Len(fed') = n + 1
  BY <1>1, FeedAgrees DEF ParserTypes
<1>3. ASSUME NEW i \in 1 .. n + 1, Parser!CsiFrom(fed', i, n + 1), b \in Parser!Finals
      PROVE  issued' = << <<"Csi", b, private(i), spelled(i)>> >>
  <2>1. Parser!CsiFrom(fed, i, n + 1) /\ i \in 1 .. n
    <3>1. Parser!CsiFrom(fed, i, n + 1)
      BY <1>1, <1>3, PlaceOfByte
    <3> QED
      BY <1>2, <3>1 DEF Parser!CsiFrom
  <2>2. ParserState = "Csi"
    <3>1. Parser!InCsi(fed, n + 1)
      BY <2>1 DEF Parser!InCsi, Parser!CsiFrom
    <3> QED
      BY <3>1 DEF PlacesKnown, SequenceSeen
  <2>3. Holds(fed, i, n + 1, ParameterCount, Parameters, PrivateCsi)
    BY <2>1 DEF ParametersSeen
  <2>4. issued' = << <<"Csi", b, PrivateCsi, SubSeq(Parameters, 1, ParameterCount)>> >>
    <3>1. b \notin Parser!Digits /\ b # 59 /\ b # 27
      BY <1>3 DEF Parser!Digits, Parser!Finals
    <3> QED
      BY <1>1, <1>3, <2>2, <3>1, Zenon DEF NumbersMove
  <2>5. private(i) = PrivateCsi
    <3>1. Parser!SpelledPrivate(fed', i, n + 1) <=> Parser!SpelledPrivate(fed, i, n + 1)
      BY <1>2, <2>1, BlankAgrees
    <3>2. PrivateCsi = Parser!SpelledPrivate(fed, i, n + 1)
      BY <2>3, Zenon DEF Holds
    <3>3. Parser!SpelledPrivate(fed', i, n + 1) = Parser!SpelledPrivate(fed, i, n + 1)
      BY <3>1 DEF Parser!SpelledPrivate
    <3> QED
      BY <3>2, <3>3
  <2>6. Parser!Slot(fed', i, n + 1) = ParameterCount
    <3>1. i \in Nat /\ n + 1 \in 1 .. n + 1
      BY <1>2, <2>1
    <3>2. Parser!Slot(fed', i, n + 1) = Parser!Slot(fed, i, n + 1)
      BY <1>2, <3>1, SlotAgrees
    <3> QED
      BY <2>3, <3>2, Zenon DEF Holds
  <2>7. /\ ParameterCount \in 1 .. MaxParams /\ MaxParams \in Nat
        /\ Parameters \in [1 .. MaxParams -> -1 .. 10 * ValueLimit - 1]
    BY ParserConstants DEF ParserTypes
  <2>8. \A m \in 1 .. ParameterCount : Parser!Spelled(fed', i, n + 1, m) = Parameters[m]
    <3> SUFFICES ASSUME NEW m \in 1 .. ParameterCount
                 PROVE  Parser!Spelled(fed', i, n + 1, m) = Parameters[m]
      OBVIOUS
    <3>1. Parser!Spelled(fed', i, n + 1, m) = Parser!Spelled(fed, i, n + 1, m)
      BY <1>2, <2>1, SpelledAgrees
    <3>2. m \in 1 .. MaxParams /\ m =< ParameterCount
      BY <2>7
    <3>3. Parser!Spelled(fed, i, n + 1, m) = Parameters[m]
      BY <2>3, <3>2 DEF Holds
    <3> QED
      BY <3>1, <3>3
  <2>9. spelled(i) = [m \in 1 .. ParameterCount |-> Parameters[m]]
    BY <2>6, <2>8
  <2>10. SubSeq(Parameters, 1, ParameterCount) = [m \in 1 .. ParameterCount |-> Parameters[m]]
    BY <2>7
  <2> HIDE DEF private, spelled
  <2> QED
    BY <2>4, <2>5, <2>9, <2>10
<1> QED
  BY <1>2, <1>3 DEF Parser!SequenceSpelled, Parser!last

-----------------------------------------------------------------------------
(***************************************************************************)
(* The invariant as a whole.                                               *)
(***************************************************************************)
\* A byte keeps the invariant.
LEMMA ParserInvStep ==
    ASSUME ParserInv, Parser!Next
    PROVE  ParserInv'
<1>1. ParserTypes /\ PlacesKnown /\ CharacterSeen /\ ParametersSeen
  BY DEF ParserInv
<1>2. ParserTypes'
  BY <1>1, ParserTypesStep
<1>3. PlacesKnown'
  <2>1. EscapeSeen' /\ StringSeen'
    BY <1>1, EscapeSeenStep, StringSeenStep DEF PlacesKnown
  <2>2. StringKept' /\ SequenceSeen'
    BY <1>1, StringKeptStep, SequenceSeenStep
  <2> QED
    BY <2>1, <2>2 DEF PlacesKnown
<1>4. CharacterSeen' /\ ParametersSeen'
  BY <1>1, CharacterSeenStep, ParametersSeenStep
<1>5. Parser!PayloadHidden' /\ Parser!CellsShowable'
  BY <1>1, PayloadHiddenStep, CellsShowableStep DEF PlacesKnown
<1>6. Parser!SequenceSpelled' /\ Parser!TextDecoded'
  BY <1>1, SequenceSpelledStep, TextDecodedStep
<1> QED
  BY <1>2, <1>3, <1>4, <1>5, <1>6 DEF ParserInv

\* A step of another part changes nothing.
LEMMA ParserInvStutter ==
    ASSUME ParserInv, UNCHANGED Parser!vars
    PROVE  ParserInv'
<1>1. /\ UNCHANGED <<ParserState, Parameters, ParameterCount, PrivateCsi, Utf8Remaining,
                     Utf8CodePoint>>
      /\ UNCHANGED <<issued, fed>>
  BY DEF Parser!vars, Parser!numbers, Parser!utf8
<1>2. ParserTypes'
  BY <1>1 DEF ParserInv, ParserTypes, PointFits
<1>3. PlacesKnown'
  BY <1>1 DEF ParserInv, PlacesKnown, EscapeSeen, StringSeen, StringKept, SequenceSeen
<1>4. CharacterSeen'
  BY <1>1 DEF ParserInv, CharacterSeen
<1>5. ParametersSeen'
  BY <1>1 DEF ParserInv, ParametersSeen
<1>6. Parser!PayloadHidden' /\ Parser!CellsShowable'
  BY <1>1 DEF ParserInv, Parser!PayloadHidden, Parser!CellsShowable, Parser!last
<1>7. Parser!SequenceSpelled'
  BY <1>1 DEF ParserInv, Parser!SequenceSpelled, Parser!last
<1>8. Parser!TextDecoded'
  BY <1>1 DEF ParserInv, Parser!TextDecoded, Parser!last
<1> QED
  BY <1>2, <1>3, <1>4, <1>5, <1>6, <1>7, <1>8 DEF ParserInv

\* The type invariant that the run checks.
LEMMA ParserTypeOK == ParserInv => Parser!TypeOK
<1> SUFFICES ASSUME ParserInv
             PROVE  Parser!TypeOK
  OBVIOUS
<1>1. Utf8CodePoint \in 0 .. 8 * 64 * 64 * 64 - 1
  <2>1. Utf8CodePoint \in Nat /\ Utf8CodePoint < 8 * 64 * 64 * 64
    BY DEF ParserInv, ParserTypes, PointFits
  <2>2. \A n, m \in Nat : n < m => n \in 0 .. m - 1
    OBVIOUS
  <2>3. 8 * 64 * 64 * 64 \in Nat
    OBVIOUS
  <2> QED
    BY <2>1, <2>2, <2>3, Zenon
<1> QED
  BY <1>1 DEF ParserInv, ParserTypes, Parser!TypeOK

=============================================================================
