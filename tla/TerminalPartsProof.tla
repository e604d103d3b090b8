------------------------- MODULE TerminalPartsProof -------------------------
(***************************************************************************)
(* Proofs about TerminalParts: the inductive invariants of the keys, of the*)
(* loop over rendition parameters, of the terminal's life and of the loops *)
(* behind the screen, and the theorems that join them to the invariant of  *)
(* the byte parser (ParserProof).                                          *)
(***************************************************************************)
EXTENDS ParserProof

-----------------------------------------------------------------------------
(***************************************************************************)
(* Keys (WolfSshTerminalReadKey, CopyKeySequence).                         *)
(***************************************************************************)
\* A key that was answered was answered by the whole of WolfSshTerminalReadKey.
KeysInv ==
    /\ key \in Keys!Keyboard /\ capacity \in KeyCapacities /\ ApplicationCursor \in BOOLEAN
    /\ result = Keys!Idle \/ result = Keys!Answer(key, capacity, ApplicationCursor)

\* The tables name no sequence twice, and every sequence is one of four forms.
LEMMA Tables ==
    /\ \A i, j \in 1 .. 6 : Keys!CursorFinals[i] = Keys!CursorFinals[j] => i = j
    /\ \A i \in 1 .. 6 : Keys!CursorFinals[i] \in 65 .. 72
    /\ \A i, j \in 1 .. 4 : Keys!EditDigits[i] = Keys!EditDigits[j] => i = j
    /\ \A i, j \in 1 .. 6 : Keys!FunctionTens[i] = Keys!FunctionTens[j]
                         /\ Keys!FunctionDigits[i] = Keys!FunctionDigits[j] => i = j
BY DEF Keys!CursorFinals, Keys!EditDigits, Keys!FunctionTens, Keys!FunctionDigits

\* How the sequences of the special keys differ: by their length, by their third
\* byte, by their fourth.
Marked(scan, app, m) ==
    /\ m[1] = 27 /\ 1 =< scan /\ scan =< 20
    /\ scan =< 6 =>
         /\ Len(m) = 3 /\ m[2] = IF app THEN 79 ELSE 91
         /\ m[3] = Keys!CursorFinals[scan] /\ m[3] \in Int /\ 65 =< m[3] /\ m[3] =< 72
    /\ 7 =< scan /\ scan =< 10 => Len(m) = 4 /\ m[3] = Keys!EditDigits[scan - 6]
    /\ 11 =< scan /\ scan =< 14 => Len(m) = 3 /\ m[3] = 80 + scan - 11
    /\ 15 =< scan =>
         Len(m) = 5 /\ m[3] = Keys!FunctionTens[scan - 14] /\ m[4] = Keys!FunctionDigits[scan - 14]

\* The sequence of a special key shows which key it is.
LEMMA MappedMarks ==
    ASSUME NEW scan \in Keys!ScanCodes, NEW app \in BOOLEAN
    PROVE  Keys!Mapped(scan, app) # << >> => Marked(scan, app, Keys!Mapped(scan, app))
<1>0. scan \in Nat /\ scan =< 23
  BY DEF Keys!ScanCodes
<1>1. CASE 1 =< scan /\ scan =< 6
  <2>1. scan \in 1 .. 6 /\ scan \notin 7 .. 10 /\ scan \notin 11 .. 14 /\ scan \notin 15 .. 20
    BY <1>0, <1>1
  <2>2. PICK m : m = Keys!Mapped(scan, app) /\ m = <<27, IF app THEN 79 ELSE 91, Keys!CursorFinals[scan]>>
    BY <2>1, Zenon DEF Keys!Mapped
  <2>3. Keys!CursorFinals[scan] \in 65 .. 72
    BY <2>1, Tables, Zenon
  <2>4. m[1] = 27 /\ Len(m) = 3 /\ m[2] = (IF app THEN 79 ELSE 91) /\ m[3] = Keys!CursorFinals[scan]
    BY <2>2
  <2>5. Marked(scan, app, m)
    BY <1>0, <1>1, <2>3, <2>4 DEF Marked
  <2> QED
    BY <2>2, <2>5
<1>2. CASE 7 =< scan /\ scan =< 10
  <2>1. scan \notin 1 .. 6 /\ scan \in 7 .. 10 /\ scan \notin 11 .. 14 /\ scan \notin 15 .. 20
    BY <1>0, <1>2
  <2>2. PICK m : m = Keys!Mapped(scan, app) /\ m = <<27, 91, Keys!EditDigits[scan - 6], 126>>
    BY <2>1, Zenon DEF Keys!Mapped
  <2>4. m[1] = 27 /\ Len(m) = 4 /\ m[3] = Keys!EditDigits[scan - 6]
    BY <2>2
  <2>5. Marked(scan, app, m)
    BY <1>0, <1>2, <2>4 DEF Marked
  <2> QED
    BY <2>2, <2>5
<1>3. CASE 11 =< scan /\ scan =< 14
  <2>1. scan \notin 1 .. 6 /\ scan \notin 7 .. 10 /\ scan \in 11 .. 14 /\ scan \notin 15 .. 20
    BY <1>0, <1>3
  <2>2. PICK m : m = Keys!Mapped(scan, app) /\ m = <<27, 79, 80 + scan - 11>>
    BY <2>1, Zenon DEF Keys!Mapped
  <2>4. m[1] = 27 /\ Len(m) = 3 /\ m[3] = 80 + scan - 11
    BY <2>2
  <2>5. Marked(scan, app, m)
    BY <1>0, <1>3, <2>4 DEF Marked
  <2> QED
    BY <2>2, <2>5
<1>4. CASE 15 =< scan /\ scan =< 20
  <2>1. scan \notin 1 .. 6 /\ scan \notin 7 .. 10 /\ scan \notin 11 .. 14 /\ scan \in 15 .. 20
    BY <1>0, <1>4
  <2>2. PICK m : m = Keys!Mapped(scan, app) /\ m = <<27, 91, Keys!FunctionTens[scan - 14], Keys!FunctionDigits[scan - 14], 126>>
    BY <2>1, Zenon DEF Keys!Mapped
  <2>4. /\ m[1] = 27 /\ Len(m) = 5
        /\ m[3] = Keys!FunctionTens[scan - 14] /\ m[4] = Keys!FunctionDigits[scan - 14]
    BY <2>2
  <2>5. Marked(scan, app, m)
    BY <1>0, <1>4, <2>4 DEF Marked
  <2> QED
    BY <2>2, <2>5
<1>5. CASE scan = 0 \/ scan > 20
  <2>1. scan \notin 1 .. 6 /\ scan \notin 7 .. 10 /\ scan \notin 11 .. 14 /\ scan \notin 15 .. 20
    BY <1>0, <1>5
  <2> QED
    BY <2>1, Zenon DEF Keys!Mapped
<1> QED
  BY <1>0, <1>1, <1>2, <1>3, <1>4, <1>5

\* Two special keys with the same sequence in one mode are one key.
LEMMA MappedDistinct ==
    ASSUME NEW s \in Keys!ScanCodes, NEW t \in Keys!ScanCodes, NEW app \in BOOLEAN,
           Keys!Mapped(s, app) = Keys!Mapped(t, app), Keys!Mapped(s, app) # << >>
    PROVE  s = t
<1>1. PICK m : m = Keys!Mapped(s, app) /\ m = Keys!Mapped(t, app) /\ m # << >>
  OBVIOUS
<1>2. Marked(s, app, m) /\ Marked(t, app, m)
  BY <1>1, MappedMarks, Zenon
<1>3. s \in Int /\ t \in Int
  BY DEF Keys!ScanCodes
<1>4. CASE s =< 6
  <2>1. t =< 6
    <3>1. Len(m) = 3 /\ m[3] =< 72 /\ m[3] \in Int
      BY <1>2, <1>4 DEF Marked
    <3> QED
      BY <1>2, <1>3, <3>1 DEF Marked
  <2>2. 1 =< s /\ 1 =< t /\ m[3] = Keys!CursorFinals[s] /\ m[3] = Keys!CursorFinals[t]
    BY <1>2, <1>4, <2>1 DEF Marked
  <2>3. s \in 1 .. 6 /\ t \in 1 .. 6
    BY <1>3, <1>4, <2>1, <2>2
  <2> QED
    BY <2>2, <2>3, Tables, Zenon
<1>5. CASE 7 =< s /\ s =< 10
  <2>1. Len(m) = 4 /\ m[3] = Keys!EditDigits[s - 6]
    BY <1>2, <1>5 DEF Marked
  <2>2. 7 =< t /\ t =< 10
    BY <1>2, <1>3, <2>1 DEF Marked
  <2>3. m[3] = Keys!EditDigits[t - 6]
    BY <1>2, <2>2 DEF Marked
  <2>4. s - 6 \in 1 .. 4 /\ t - 6 \in 1 .. 4
    BY <1>3, <1>5, <2>2
  <2>5. s - 6 = t - 6
    BY <2>1, <2>3, <2>4, Tables, Zenon
  <2> QED
    BY <1>3, <2>5
<1>6. CASE 11 =< s /\ s =< 14
  <2>1. Len(m) = 3 /\ m[3] = 80 + s - 11
    BY <1>2, <1>6 DEF Marked
  <2>2. 11 =< t /\ t =< 14
    BY <1>2, <1>3, <1>6, <2>1 DEF Marked
  <2>3. m[3] = 80 + t - 11
    BY <1>2, <2>2 DEF Marked
  <2> QED
    BY <1>3, <2>1, <2>3
<1>7. CASE 15 =< s
  <2>1. /\ Len(m) = 5 /\ s =< 20
        /\ m[3] = Keys!FunctionTens[s - 14] /\ m[4] = Keys!FunctionDigits[s - 14]
    BY <1>2, <1>7 DEF Marked
  <2>2. 15 =< t /\ t =< 20
    BY <1>2, <1>3, <2>1 DEF Marked
  <2>3. m[3] = Keys!FunctionTens[t - 14] /\ m[4] = Keys!FunctionDigits[t - 14]
    BY <1>2, <2>2 DEF Marked
  <2>4. s - 14 \in 1 .. 6 /\ t - 14 \in 1 .. 6
    BY <1>3, <1>7, <2>1, <2>2
  <2>5. s - 14 = t - 14
    BY <2>1, <2>3, <2>4, Tables, Zenon
  <2> QED
    BY <1>3, <2>5
<1> QED
  BY <1>3, <1>4, <1>5, <1>6, <1>7

\* The bytes of a typed character, by its range (WolfSshTerminalReadKey).
LEMMA EncodedForms ==
    ASSUME NEW c \in Nat
    PROVE  /\ c = 8 => Keys!Encoded(c) = <<127>>
           /\ c # 8 /\ c < 128 => Keys!Encoded(c) = <<c>>
           /\ 128 =< c /\ c =< 2047 => Keys!Encoded(c) = <<192 + c \div 64, 128 + (c % 64)>>
           /\ 2048 =< c =>
                Keys!Encoded(c) =
                  <<224 + c \div 4096, 128 + ((c \div 64) % 64), 128 + (c % 64)>>
<1>1. ASSUME c = 8 PROVE Keys!Encoded(c) = <<127>>
  BY <1>1 DEF Keys!Encoded, Keys!Backspace
<1>2. ASSUME c # 8, c < 128 PROVE Keys!Encoded(c) = <<c>>
  BY <1>2 DEF Keys!Encoded, Keys!Backspace
<1>3. ASSUME 128 =< c, c =< 2047
      PROVE  Keys!Encoded(c) = <<192 + c \div 64, 128 + (c % 64)>>
  BY <1>3 DEF Keys!Encoded, Keys!Backspace, Keys!LowBits
<1>4. ASSUME 2048 =< c
      PROVE  Keys!Encoded(c) =
               <<224 + c \div 4096, 128 + ((c \div 64) % 64), 128 + (c % 64)>>
  BY <1>4 DEF Keys!Encoded, Keys!Backspace, Keys!LowBits
<1> QED
  BY <1>1, <1>2, <1>3, <1>4

\* The parts that UTF-8 takes of a character give it back.
LEMMA Arithmetic ==
    ASSUME NEW c \in Nat
    PROVE  /\ c = (c \div 64) * 64 + (c % 64) /\ c % 64 \in 0 .. 63
           /\ c \div 64 = (c \div 4096) * 64 + ((c \div 64) % 64) /\ (c \div 64) % 64 \in 0 .. 63
           /\ c \div 64 \in Nat /\ c \div 4096 \in Nat
OBVIOUS

\* The lead bytes of UTF-8, by the length of the sequence.
Leads(m) ==
    /\ Len(m) = 1 => m[1] \in 0 .. 127
    /\ Len(m) = 2 => m[1] \in 194 .. 223
    /\ Len(m) = 3 => m[1] \in 224 .. 239

\* Every encoding of a character is the UTF-8 of it, DEL for backspace: it decodes
\* to the character, and every byte is one of its place.
LEMMA EncodedDecodes ==
    ASSUME NEW c \in Nat, c =< Keys!LastUnit, NEW m, m = Keys!Encoded(c)
    PROVE  /\ 1 =< Len(m) /\ Len(m) =< 3 /\ m # << >> /\ Len(m) \in Nat
           /\ Keys!Decoded(m) = IF c = 8 THEN 127 ELSE c
           /\ \A n \in 2 .. Len(m) : m[n] \in 128 .. 191
           /\ Leads(m)
<1>1. CASE c < 128
  <2>0. PICK d \in Nat : m = <<d>> /\ d = (IF c = 8 THEN 127 ELSE c)
    <3>1. CASE c = 8
      BY <3>1, EncodedForms
    <3>2. CASE c # 8
      BY <1>1, <3>2, EncodedForms
    <3> QED
      BY <3>1, <3>2
  <2>1. d \in 0 .. 127
    BY <1>1, <2>0
  <2>2. Len(m) = 1 /\ m[1] = d /\ Len(m) # 2 /\ Len(m) # 3
    BY <2>0
  <2>3. Keys!Decoded(m) = d
    BY <2>2 DEF Keys!Decoded
  <2>4. \A n \in 2 .. Len(m) : m[n] \in 128 .. 191
    BY <2>2
  <2> QED
    BY <2>0, <2>1, <2>2, <2>3, <2>4 DEF Leads
<1>2. CASE 128 =< c /\ c =< 2047
  <2>1. m = <<192 + c \div 64, 128 + (c % 64)>>
    BY <1>2, EncodedForms
  <2>2. Len(m) = 2 /\ m[1] = 192 + c \div 64 /\ m[2] = 128 + (c % 64) /\ Len(m) # 1 /\ Len(m) # 3
    BY <2>1
  <2>3. Keys!Decoded(m) = (m[1] - 192) * 64 + (m[2] - 128)
    BY <2>2 DEF Keys!Decoded
  <2>4. PICK q \in Nat, r \in 0 .. 63 : q = c \div 64 /\ r = c % 64 /\ c = q * 64 + r
    BY Arithmetic
  <2>5. 2 =< q /\ q =< 31
    BY <1>2, <2>4
  <2>6. m[1] = 192 + q /\ m[2] = 128 + r
    BY <2>2, <2>4
  <2>7. Keys!Decoded(m) = c
    BY <2>3, <2>4, <2>6
  <2>8. \A n \in 2 .. Len(m) : m[n] \in 128 .. 191
    <3>1. m[2] \in 128 .. 191
      BY <2>4, <2>6
    <3> QED
      BY <2>2, <3>1
  <2>9. m[1] \in 194 .. 223
    BY <2>5, <2>6
  <2>10. m # << >> /\ c # 8
    BY <1>2, <2>1
  <2> QED
    BY <2>2, <2>7, <2>8, <2>9, <2>10 DEF Leads
<1>3. CASE 2048 =< c
  <2>1. m = <<224 + c \div 4096, 128 + ((c \div 64) % 64), 128 + (c % 64)>>
    BY <1>3, EncodedForms
  <2>2. /\ Len(m) = 3 /\ m[1] = 224 + c \div 4096 /\ m[2] = 128 + ((c \div 64) % 64)
        /\ m[3] = 128 + (c % 64) /\ Len(m) # 1 /\ Len(m) # 2
    BY <2>1
  <2>3. Keys!Decoded(m) = (m[1] - 224) * 4096 + (m[2] - 128) * 64 + (m[3] - 128)
    BY <2>2 DEF Keys!Decoded
  <2>4. PICK q \in Nat, r \in 0 .. 63 : q = c \div 64 /\ r = c % 64 /\ c = q * 64 + r
    BY Arithmetic
  <2>5. PICK h \in Nat, l \in 0 .. 63 : h = c \div 4096 /\ l = (c \div 64) % 64 /\ q = h * 64 + l
    BY <2>4, Arithmetic
  <2>6. h =< 15
    BY <2>4, <2>5 DEF Keys!LastUnit
  <2>7. m[1] = 224 + h /\ m[2] = 128 + l /\ m[3] = 128 + r
    BY <2>2, <2>4, <2>5
  <2>8. Keys!Decoded(m) = c
    BY <2>3, <2>4, <2>5, <2>7
  <2>9. \A n \in 2 .. Len(m) : m[n] \in 128 .. 191
    <3>1. m[2] \in 128 .. 191 /\ m[3] \in 128 .. 191
      BY <2>4, <2>5, <2>7
    <3> QED
      BY <2>2, <3>1
  <2>10. m[1] \in 224 .. 239
    BY <2>6, <2>7
  <2>11. m # << >> /\ c # 8
    BY <1>3, <2>1
  <2> QED
    BY <2>2, <2>8, <2>9, <2>10, <2>11 DEF Leads
<1> QED
  BY <1>1, <1>2, <1>3

\* What WolfSshTerminalReadKey answers, key by key.
LEMMA KeyboardKeys ==
    ASSUME NEW k \in Keys!Keyboard
    PROVE  /\ k = <<k[1], k[2]>> /\ k[1] \in Keys!ScanCodes /\ k[2] \in Nat /\ k[2] =< Keys!LastUnit
           /\ k[1] \in Nat
           /\ k[2] # 0 => k[1] = 0
<1>1. \A c \in Chars : c \in Nat /\ c =< Keys!LastUnit
  BY PartsAssumption DEF Keys!KeysAssumption
<1>2. CASE k \in Keys!ScanCodes \X {0}
  <2>1. k = <<k[1], k[2]>> /\ k[1] \in Keys!ScanCodes /\ k[2] = 0
    BY <1>2
  <2> QED
    BY <2>1 DEF Keys!ScanCodes, Keys!LastUnit
<1>3. CASE k \in {0} \X Chars
  <2>1. k = <<k[1], k[2]>> /\ k[1] = 0 /\ k[2] \in Chars
    BY <1>3
  <2>2. k[2] \in Nat /\ k[2] =< Keys!LastUnit
    BY <1>1, <2>1
  <2> QED
    BY <2>1, <2>2 DEF Keys!ScanCodes
<1> QED
  BY <1>2, <1>3 DEF Keys!Keyboard

\* What the caller gets for a key without a character.
LEMMA AnswerSpecial ==
    ASSUME NEW k \in Keys!Keyboard, k[2] = 0, NEW room \in Nat, NEW app \in BOOLEAN,
           NEW m, m = Keys!Mapped(k[1], app)
    PROVE  /\ m = << >> => Keys!Answer(k, room, app) =
                             [status |-> "NOT_READY", bytes |-> << >>, length |-> 0]
           /\ m # << >> => Keys!Answer(k, room, app) = Keys!CopyKeySequence(m, room)
BY DEF Keys!Answer, Keys!Exit

\* What the caller gets for a key with one.
LEMMA AnswerTyped ==
    ASSUME NEW k \in Keys!Keyboard, k[2] # 0, NEW room \in Nat, NEW app \in BOOLEAN
    PROVE  /\ k[2] = 29 => Keys!Answer(k, room, app) =
                             [status |-> "EXIT", bytes |-> << >>, length |-> 0]
           /\ k[2] # 29 /\ room < 1 =>
                Keys!Answer(k, room, app) =
                  [status |-> "BUFFER_TOO_SMALL", bytes |-> << >>, length |-> 1]
           /\ k[2] # 29 /\ 1 =< room =>
                Keys!Answer(k, room, app) = Keys!CopyKeySequence(Keys!Encoded(k[2]), room)
<1>1. k[1] = 0 /\ 0 \in Keys!ScanCodes
  BY KeyboardKeys DEF Keys!ScanCodes
<1>2. Keys!Mapped(k[1], app) = << >>
  <2>1. 0 \notin 1 .. 6 /\ 0 \notin 7 .. 10 /\ 0 \notin 11 .. 14 /\ 0 \notin 15 .. 20
    OBVIOUS
  <2> QED
    BY <1>1, <2>1, Zenon DEF Keys!Mapped
<1>3. ASSUME k[2] = 29
      PROVE  Keys!Answer(k, room, app) = [status |-> "EXIT", bytes |-> << >>, length |-> 0]
  BY <1>3 DEF Keys!Answer, Keys!Exit
<1>4. ASSUME k[2] # 29, room < 1
      PROVE  Keys!Answer(k, room, app) =
               [status |-> "BUFFER_TOO_SMALL", bytes |-> << >>, length |-> 1]
  BY <1>2, <1>4 DEF Keys!Answer, Keys!Exit
<1>5. ASSUME k[2] # 29, 1 =< room
      PROVE  Keys!Answer(k, room, app) = Keys!CopyKeySequence(Keys!Encoded(k[2]), room)
  <2>1. ~(room < 1)
    BY <1>5
  <2> QED
    BY <1>2, <1>5, <2>1, Zenon DEF Keys!Answer, Keys!Exit
<1> QED
  BY <1>3, <1>4, <1>5

\* A sequence begins with ESC and has three to five bytes.
LEMMA MappedLength ==
    ASSUME NEW scan \in Keys!ScanCodes, NEW app \in BOOLEAN,
           NEW m, m = Keys!Mapped(scan, app), m # << >>
    PROVE  Len(m) \in Nat /\ 3 =< Len(m) /\ Len(m) =< 5 /\ m[1] = 27
<1>1. Marked(scan, app, m)
  BY MappedMarks
<1>2. scan \in Int
  BY DEF Keys!ScanCodes
<1>3. m[1] = 27 /\ (Len(m) = 3 \/ Len(m) = 4 \/ Len(m) = 5)
  <2>1. scan =< 6 \/ (7 =< scan /\ scan =< 10) \/ (11 =< scan /\ scan =< 14) \/ 15 =< scan
    BY <1>2
  <2> QED
    BY <1>1, <2>1, Zenon DEF Marked
<1>4. \A n : n = 3 \/ n = 4 \/ n = 5 => n \in Nat /\ 3 =< n /\ n =< 5
  OBVIOUS
<1> QED
  BY <1>3, <1>4, Zenon

\* A successful answer is a whole sequence: of a special key, or of a character.
LEMMA SuccessForms ==
    ASSUME NEW k \in Keys!Keyboard, NEW room \in Nat, NEW app \in BOOLEAN,
           NEW a, a = Keys!Answer(k, room, app), a.bytes # << >> \/ a.status = "SUCCESS"
    PROVE  \/ /\ k[2] = 0 /\ a.bytes = Keys!Mapped(k[1], app) /\ a.bytes # << >>
           \/ /\ k[2] # 0 /\ k[2] # 29 /\ a.bytes = Keys!Encoded(k[2])
<1>1. CASE k[2] = 0
  <2>1. PICK m : m = Keys!Mapped(k[1], app)
    OBVIOUS
  <2>2. m # << >>
    BY <1>1, <2>1, AnswerSpecial
  <2>3. a = Keys!CopyKeySequence(m, room)
    BY <1>1, <2>1, <2>2, AnswerSpecial
  <2>4. a.bytes = m
    BY <2>3 DEF Keys!CopyKeySequence
  <2> QED
    BY <1>1, <2>1, <2>2, <2>4
<1>2. CASE k[2] # 0
  <2>1. k[2] # 29 /\ 1 =< room
    BY <1>2, AnswerTyped
  <2>2. a = Keys!CopyKeySequence(Keys!Encoded(k[2]), room)
    BY <1>2, <2>1, AnswerTyped
  <2>3. a.bytes = Keys!Encoded(k[2])
    BY <2>2 DEF Keys!CopyKeySequence
  <2> QED
    BY <1>2, <2>1, <2>3
<1> QED
  BY <1>1, <1>2

\* Characters with the same bytes are the same, but for backspace and DEL.
LEMMA EncodedDistinct ==
    ASSUME NEW c \in Nat, c =< Keys!LastUnit, NEW d \in Nat, d =< Keys!LastUnit,
           Keys!Encoded(c) = Keys!Encoded(d)
    PROVE  c = d \/ {c, d} = {8, 127}
<1>1. PICK m : m = Keys!Encoded(c) /\ m = Keys!Encoded(d)
  OBVIOUS
<1>2. Keys!Decoded(m) = IF c = 8 THEN 127 ELSE c
  BY <1>1, EncodedDecodes, Zenon
<1>3. Keys!Decoded(m) = IF d = 8 THEN 127 ELSE d
  BY <1>1, EncodedDecodes, Zenon
<1> QED
  BY <1>2, <1>3

\* What was typed is what the server decodes.
LEMMA TypedReceived == KeysInv => Keys!TypedIsReceived
<1> SUFFICES ASSUME KeysInv, result.status = "SUCCESS", key[2] # 0
             PROVE  /\ Keys!Decoded(result.bytes) = IF key[2] = 8 THEN 127 ELSE key[2]
                    /\ \A n \in 2 .. Len(result.bytes) : result.bytes[n] \in 128 .. 191
                    /\ Len(result.bytes) = 2 => result.bytes[1] \in 194 .. 223
                    /\ Len(result.bytes) = 3 => result.bytes[1] \in 224 .. 239
  BY DEF Keys!TypedIsReceived, Keys!Success, Keys!Backspace
<1>1. /\ key \in Keys!Keyboard /\ capacity \in Nat /\ ApplicationCursor \in BOOLEAN
      /\ result = Keys!Answer(key, capacity, ApplicationCursor)
  BY PartsAssumption DEF KeysInv, Keys!Idle, Keys!KeysAssumption
<1>2. result.bytes = Keys!Encoded(key[2])
  BY <1>1, SuccessForms
<1>3. key[2] \in Nat /\ key[2] =< Keys!LastUnit
  BY <1>1, KeyboardKeys
<1>4. /\ Keys!Decoded(result.bytes) = IF key[2] = 8 THEN 127 ELSE key[2]
      /\ \A n \in 2 .. Len(result.bytes) : result.bytes[n] \in 128 .. 191
      /\ Leads(result.bytes)
  BY <1>2, <1>3, EncodedDecodes
<1> QED
  BY <1>4, Zenon DEF Leads

\* A key is handed over whole or not at all.
LEMMA NothingIsCut == KeysInv => Keys!NothingCut
<1> SUFFICES ASSUME KeysInv
             PROVE  Keys!NothingCut
  OBVIOUS
<1>1. /\ key \in Keys!Keyboard /\ capacity \in Nat /\ ApplicationCursor \in BOOLEAN
  BY PartsAssumption DEF KeysInv, Keys!KeysAssumption
<1>2. key[1] \in Keys!ScanCodes /\ key[2] \in Nat /\ key[2] =< Keys!LastUnit
  BY <1>1, KeyboardKeys
<1>3. CASE result = Keys!Idle
  BY <1>3 DEF Keys!NothingCut, Keys!Success, Keys!Idle
<1>4. CASE result = Keys!Answer(key, capacity, ApplicationCursor) /\ key[2] = 0
  <2>1. PICK m : m = Keys!Mapped(key[1], ApplicationCursor)
    OBVIOUS
  <2>2. CASE m = << >>
    <3>1. result = [status |-> "NOT_READY", bytes |-> << >>, length |-> 0]
      BY <1>1, <1>4, <2>1, <2>2, AnswerSpecial
    <3> QED
      BY <3>1 DEF Keys!NothingCut, Keys!Success
  <2>3. CASE m # << >>
    <3>1. Len(m) \in Nat /\ 3 =< Len(m) /\ Len(m) =< 5
      BY <1>1, <1>2, <2>1, <2>3, MappedLength
    <3>2. \A r \in Nat : Keys!Answer(key, r, ApplicationCursor) = Keys!CopyKeySequence(m, r)
      BY <1>1, <1>4, <2>1, <2>3, AnswerSpecial
    <3>3. result = Keys!CopyKeySequence(m, capacity)
      BY <1>1, <1>4, <3>2
    <3>4. CASE capacity < Len(m)
      <4>1. result = [status |-> "BUFFER_TOO_SMALL", bytes |-> << >>, length |-> Len(m)]
        BY <3>3, <3>4 DEF Keys!CopyKeySequence
      <4>2. Keys!Answer(key, Len(m), ApplicationCursor).status = "SUCCESS"
        BY <3>1, <3>2 DEF Keys!CopyKeySequence
      <4> QED
        BY <1>1, <3>1, <3>4, <4>1, <4>2 DEF Keys!NothingCut, Keys!Success
    <3>5. CASE ~(capacity < Len(m))
      <4>1. result = [status |-> "SUCCESS", bytes |-> m, length |-> Len(m)]
        BY <3>3, <3>5 DEF Keys!CopyKeySequence
      <4>2. Keys!Answer(key, 16, ApplicationCursor) =
              [status |-> "SUCCESS", bytes |-> m, length |-> Len(m)]
        BY <3>1, <3>2 DEF Keys!CopyKeySequence
      <4> QED
        BY <4>1, <4>2 DEF Keys!NothingCut, Keys!Success
    <3> QED
      BY <3>4, <3>5
  <2> QED
    BY <2>2, <2>3
<1>5. CASE result = Keys!Answer(key, capacity, ApplicationCursor) /\ key[2] # 0
  <2>1. CASE key[2] = 29
    <3>1. result = [status |-> "EXIT", bytes |-> << >>, length |-> 0]
      BY <1>1, <1>5, <2>1, AnswerTyped
    <3> QED
      BY <3>1 DEF Keys!NothingCut, Keys!Success
  <2>2. CASE key[2] # 29
    <3>1. PICK m : m = Keys!Encoded(key[2])
      OBVIOUS
    <3>2. /\ 1 =< Len(m) /\ Len(m) =< 3 /\ Len(m) \in Nat
      BY <1>2, <3>1, EncodedDecodes, Zenon
    <3>3. \A r \in Nat : 1 =< r =>
            Keys!Answer(key, r, ApplicationCursor) = Keys!CopyKeySequence(m, r)
      BY <1>1, <1>5, <2>2, <3>1, AnswerTyped
    <3>4. CASE capacity < 1
      <4>1. result = [status |-> "BUFFER_TOO_SMALL", bytes |-> << >>, length |-> 1]
        BY <1>1, <1>5, <2>2, <3>4, AnswerTyped
      <4>2. key[2] >= 128 \/ Keys!Answer(key, 1, ApplicationCursor).status = "SUCCESS"
        <5>1. CASE key[2] < 128
          <6>1. Len(m) = 1
            <7>1. CASE key[2] = 8
              BY <1>2, <3>1, <7>1, EncodedForms
            <7>2. CASE key[2] # 8
              BY <1>2, <3>1, <5>1, <7>2, EncodedForms
            <7> QED
              BY <7>1, <7>2
          <6> QED
            BY <3>3, <6>1 DEF Keys!CopyKeySequence
        <5> QED
          BY <1>2, <5>1
      <4> QED
        BY <1>1, <3>4, <4>1, <4>2 DEF Keys!NothingCut, Keys!Success
    <3>5. CASE 1 =< capacity /\ capacity < Len(m)
      <4>1. result = [status |-> "BUFFER_TOO_SMALL", bytes |-> << >>, length |-> Len(m)]
        BY <1>1, <1>5, <3>3, <3>5 DEF Keys!CopyKeySequence
      <4>2. Keys!Answer(key, Len(m), ApplicationCursor).status = "SUCCESS"
        BY <3>2, <3>3 DEF Keys!CopyKeySequence
      <4> QED
        BY <1>1, <3>2, <3>5, <4>1, <4>2 DEF Keys!NothingCut, Keys!Success
    <3>6. CASE Len(m) =< capacity
      <4>1. result = [status |-> "SUCCESS", bytes |-> m, length |-> Len(m)]
        BY <1>1, <1>5, <3>2, <3>3, <3>6 DEF Keys!CopyKeySequence
      <4>2. Keys!Answer(key, 16, ApplicationCursor) =
              [status |-> "SUCCESS", bytes |-> m, length |-> Len(m)]
        BY <3>2, <3>3 DEF Keys!CopyKeySequence
      <4> QED
        BY <4>1, <4>2 DEF Keys!NothingCut, Keys!Success
    <3> QED
      BY <1>1, <3>2, <3>4, <3>5, <3>6
  <2> QED
    BY <2>1, <2>2
<1> QED
  BY <1>3, <1>4, <1>5 DEF KeysInv

\* A sequence of three bytes does not begin with ESC, nor is there a longer one.
LEMMA EncodedThree ==
    ASSUME NEW c \in Nat, c =< Keys!LastUnit, NEW m, m = Keys!Encoded(c)
    PROVE  Len(m) =< 3 /\ (Len(m) = 3 => m[1] \in 224 .. 239)
<1>1. Len(m) =< 3 /\ Leads(m)
  BY EncodedDecodes, Zenon
<1> QED
  BY <1>1, Zenon DEF Leads

\* No two keys of one mode look the same to the server.
LEMMA KeysAreDistinct == KeysInv => Keys!KeysDistinct
<1> SUFFICES ASSUME KeysInv, result.status = "SUCCESS"
             PROVE  /\ \A k \in Keys!Keyboard \ {key} :
                         \/ Keys!Answer(k, capacity, ApplicationCursor).bytes # result.bytes
                         \/ {k[2], key[2]} = {8, 127}
                    /\ key[1] \in 1 .. 6 =>
                         Keys!Answer(key, capacity, ~ApplicationCursor).bytes # result.bytes
  BY DEF Keys!KeysDistinct, Keys!Success, Keys!Backspace
<1>1. /\ key \in Keys!Keyboard /\ capacity \in Nat /\ ApplicationCursor \in BOOLEAN
      /\ result = Keys!Answer(key, capacity, ApplicationCursor)
  BY PartsAssumption DEF KeysInv, Keys!Idle, Keys!KeysAssumption
<1>2. /\ key[1] \in Keys!ScanCodes /\ key[2] \in Nat /\ key[2] =< Keys!LastUnit
      /\ key = <<key[1], key[2]>> /\ key[1] \in Nat
  BY <1>1, KeyboardKeys
<1>3. \/ /\ key[2] = 0 /\ result.bytes = Keys!Mapped(key[1], ApplicationCursor)
         /\ result.bytes # << >>
      \/ key[2] # 0 /\ key[2] # 29 /\ result.bytes = Keys!Encoded(key[2])
  BY <1>1, SuccessForms
<1>4. \A c \in Nat : c =< Keys!LastUnit => Keys!Encoded(c) # << >>
  BY EncodedDecodes
<1>5. result.bytes # << >>
  BY <1>2, <1>3, <1>4
<1>6. ASSUME NEW scan \in Keys!ScanCodes, NEW c \in Nat, c =< Keys!LastUnit,
             NEW m, m = Keys!Mapped(scan, ApplicationCursor), m = Keys!Encoded(c), m # << >>
      PROVE  FALSE
  <2>1. Len(m) \in Nat /\ 3 =< Len(m) /\ m[1] = 27
    BY <1>1, <1>6, MappedLength, Zenon
  <2>0. c \in Nat /\ c =< Keys!LastUnit /\ m = Keys!Encoded(c)
    BY <1>6
  <2>2. Len(m) =< 3 /\ (Len(m) = 3 => m[1] \in 224 .. 239)
    BY <2>0, EncodedThree, Zenon
  <2>3. \A n \in Nat : 3 =< n /\ n =< 3 => n = 3
    OBVIOUS
  <2>4. Len(m) = 3
    BY <2>1, <2>2, <2>3, Zenon
  <2>5. 27 \in 224 .. 239
    BY <2>1, <2>2, <2>4, Zenon
  <2>6. 27 \notin 224 .. 239
    OBVIOUS
  <2> QED
    BY <2>5, <2>6, Zenon
<1>7. ASSUME NEW k \in Keys!Keyboard, k # key,
             Keys!Answer(k, capacity, ApplicationCursor).bytes = result.bytes
      PROVE  {k[2], key[2]} = {8, 127}
  <2>1. /\ k[1] \in Keys!ScanCodes /\ k[2] \in Nat /\ k[2] =< Keys!LastUnit
        /\ k = <<k[1], k[2]>>
    BY KeyboardKeys
  <2>2. \/ k[2] = 0 /\ result.bytes = Keys!Mapped(k[1], ApplicationCursor)
        \/ k[2] # 0 /\ k[2] # 29 /\ result.bytes = Keys!Encoded(k[2])
    BY <1>1, <1>5, <1>7, SuccessForms
  <2>3. CASE k[2] = 0 /\ key[2] = 0
    <3>1. k[1] = key[1]
      BY <1>1, <1>2, <1>3, <1>5, <2>1, <2>2, <2>3, MappedDistinct
    <3> QED
      BY <1>2, <1>7, <2>1, <2>3, <3>1
  <2>4. CASE k[2] # 0 /\ key[2] # 0
    <3>1. k[2] = key[2] \/ {k[2], key[2]} = {8, 127}
      <4>1. Keys!Encoded(k[2]) = Keys!Encoded(key[2])
        BY <1>3, <2>2, <2>4, Zenon
      <4> QED
        BY <1>2, <2>1, <4>1, EncodedDistinct, Zenon
    <3>2. k[1] = 0 /\ key[1] = 0
      BY <1>1, <2>4, KeyboardKeys
    <3> QED
      BY <1>2, <1>7, <2>1, <3>1, <3>2
  <2>5. CASE k[2] = 0 /\ key[2] # 0
    BY <1>2, <1>3, <1>5, <1>6, <2>1, <2>2, <2>5
  <2>6. CASE k[2] # 0 /\ key[2] = 0
    BY <1>2, <1>3, <1>5, <1>6, <2>1, <2>2, <2>6
  <2> QED
    BY <2>3, <2>4, <2>5, <2>6
<1>8. ASSUME key[1] \in 1 .. 6
      PROVE  Keys!Answer(key, capacity, ~ApplicationCursor).bytes # result.bytes
  <2>1. SUFFICES ASSUME Keys!Answer(key, capacity, ~ApplicationCursor).bytes = result.bytes
                 PROVE  FALSE
    OBVIOUS
  <2>2. key[2] = 0 /\ key[1] =< 6
    BY <1>1, <1>8, KeyboardKeys
  <2>3. PICK other \in BOOLEAN : other = ~ApplicationCursor
    BY <1>1
  <2>4. result.bytes = Keys!Mapped(key[1], other)
    BY <1>1, <1>5, <2>1, <2>2, <2>3, SuccessForms
  <2>5. PICK m : m = result.bytes
    OBVIOUS
  <2>6. Marked(key[1], ApplicationCursor, m) /\ Marked(key[1], other, m)
    BY <1>1, <1>2, <1>3, <1>5, <2>2, <2>4, <2>5, MappedMarks
  <2>7. /\ m[2] = IF ApplicationCursor THEN 79 ELSE 91
        /\ m[2] = IF other THEN 79 ELSE 91
    BY <2>2, <2>6, Zenon DEF Marked
  <2> QED
    BY <1>1, <2>3, <2>7, 79 # 91, Zenon
<1> QED
  BY <1>7, <1>8

\* Nothing has been typed.
LEMMA KeysInvInit == Keys!Init => KeysInv
BY DEF Keys!Init, KeysInv

\* A key that is read is answered as Answer says.
LEMMA KeysInvStep == KeysInv /\ (Keys!ReadKey \/ UNCHANGED Keys!vars) => KeysInv'
BY DEF Keys!ReadKey, Keys!vars, KeysInv

-----------------------------------------------------------------------------
(***************************************************************************)
(* Renditions (SelectGraphicRendition).                                    *)
(***************************************************************************)
\* The parameters are numbers or unset, and the style is one that UEFI has.
RenditionTypes ==
    /\ Parameters \in Seq(Nat \cup {-1}) /\ Len(Parameters) =< MaxLength
    /\ Index \in Nat /\ 1 =< Index /\ Index =< Len(Parameters) + 1
    /\ Foreground \in Rendition!Colours /\ Background \in Rendition!Colours
    /\ Bold \in BOOLEAN /\ Reverse \in BOOLEAN

\* What the constants of a rendition are.
LEMMA RenditionConstants ==
    /\ MaxLength \in Nat /\ \A v \in Values : v \in Nat \cup {-1}
    /\ ShellForeground \in Rendition!Colours /\ ShellBackground \in Rendition!Colours
BY PartsAssumption DEF Rendition!RenditionAssumption, Rendition!Colours

\* The value of a parameter is a natural number.
LEMMA ValueType ==
    ASSUME Parameters \in Seq(Nat \cup {-1}), NEW i \in 1 .. Len(Parameters)
    PROVE  Rendition!Value(i) \in Nat /\ (Parameters[i] >= 0 => Rendition!Value(i) = Parameters[i])
           /\ Parameters[i] \in Int
<1>1. Parameters[i] \in Nat \cup {-1}
  OBVIOUS
<1>2. CASE Parameters[i] \in Nat
  BY <1>2 DEF Rendition!Value, Rendition!Parameter
<1>3. CASE Parameters[i] = -1
  BY <1>3 DEF Rendition!Value, Rendition!Parameter
<1> QED
  BY <1>1, <1>2, <1>3

\* A mixed colour is one of the sixteen.
LEMMA MixColours ==
    ASSUME NEW r \in BOOLEAN, NEW g \in BOOLEAN, NEW b \in BOOLEAN, NEW bright \in BOOLEAN
    PROVE  Rendition!Mix(r, g, b, bright) \in Rendition!Colours
BY DEF Rendition!Mix, Rendition!Colours

\* So is the nearest one to a colour of the palette (Map256Color),
LEMMA PaletteColours ==
    ASSUME NEW c \in Nat
    PROVE  Rendition!Map256Color(c) \in Rendition!Colours
<1>1. CASE c < 16
  BY <1>1 DEF Rendition!Map256Color, Rendition!Colours
<1>2. CASE c >= 232
  <2>1. ~(c < 16)
    BY <1>2
  <2> QED
    BY <1>2, <2>1 DEF Rendition!Map256Color, Rendition!Colours
<1>3. CASE ~(c < 16) /\ ~(c >= 232)
  <2> DEFINE r == (c - 16) \div 36
             g == ((c - 16) \div 6) % 6
             b == (c - 16) % 6
  <2>1. Rendition!Map256Color(c) = Rendition!Mix(r >= 3, g >= 3, b >= 3, Rendition!Max({r, g, b}) >= 5)
    BY <1>3, Zenon DEF Rendition!Map256Color
  <2>2. (r >= 3) \in BOOLEAN /\ (g >= 3) \in BOOLEAN /\ (b >= 3) \in BOOLEAN
        /\ (Rendition!Max({r, g, b}) >= 5) \in BOOLEAN
    OBVIOUS
  <2> QED
    BY <2>1, <2>2, MixColours, Zenon
<1> QED
  BY <1>1, <1>2, <1>3

\* that to a colour given by its parts (MapRgbColor),
LEMMA RgbColours ==
    ASSUME NEW r, NEW g, NEW b
    PROVE  Rendition!MapRgbColor(r, g, b) \in Rendition!Colours
<1> DEFINE red == r >= 128
           green == g >= 128
           blue == b >= 128
           bright == Rendition!Max({r, g, b}) >= 192
<1>1. Rendition!MapRgbColor(r, g, b) = Rendition!Mix(red, green, blue, bright)
  BY DEF Rendition!MapRgbColor
<1>2. red \in BOOLEAN /\ green \in BOOLEAN /\ blue \in BOOLEAN /\ bright \in BOOLEAN
  OBVIOUS
<1> HIDE DEF red, green, blue, bright
<1> QED
  BY <1>1, <1>2, MixColours, Zenon

\* and so the one of an extended group.
LEMMA ExtendedColours ==
    ASSUME Parameters \in Seq(Nat \cup {-1}), NEW i \in 1 .. Len(Parameters),
           Rendition!Is256(i) \/ Rendition!IsRgb(i)
    PROVE  Rendition!Extended(i) \in Rendition!Colours
<1>1. CASE Rendition!Is256(i)
  <2>1. i + 2 \in 1 .. Len(Parameters)
    BY <1>1 DEF Rendition!Is256
  <2>2. Rendition!Value(i + 2) \in Nat
    BY <2>1, ValueType
  <2> QED
    BY <1>1, <2>2, PaletteColours DEF Rendition!Extended
<1>2. CASE ~Rendition!Is256(i)
  BY <1>2, RgbColours DEF Rendition!Extended
<1> QED
  BY <1>1, <1>2

\* A group either leaves a part of the style alone or says what it becomes,
\* whatever it was (SelectGraphicRendition).
LEMMA ForegroundGroup ==
    ASSUME Parameters \in Seq(Nat \cup {-1}), NEW i \in 1 .. Len(Parameters)
    PROVE  \/ \A c : Rendition!NewForeground(i, c) = c
           \/ \E d \in Rendition!Colours : \A c : Rendition!NewForeground(i, c) = d
<1> DEFINE v == Rendition!Value(i)
<1>0. v \in Nat
  BY ValueType
<1>1. CASE v = 0 \/ v = 39
  <2>1. v \in {0, 39} /\ v \notin 30 .. 37 /\ v \notin 90 .. 97 /\ v # 38
    BY <1>1
  <2>2. \A c : Rendition!NewForeground(i, c) = ShellForeground
    BY <2>1, Zenon DEF Rendition!NewForeground
  <2> QED
    BY <2>2, RenditionConstants
<1>2. CASE 30 =< v /\ v =< 37
  <2>1. v \notin {0, 39} /\ v \in 30 .. 37 /\ v \notin 90 .. 97 /\ v # 38 
    BY <1>0, <1>2
  <2>2. \A c : Rendition!NewForeground(i, c) = v - 30
    BY <2>1, Zenon DEF Rendition!NewForeground
  <2>3. v - 30 \in Rendition!Colours
    BY <1>0, <1>2 DEF Rendition!Colours
  <2> QED
    BY <2>2, <2>3
<1>3. CASE 90 =< v /\ v =< 97
  <2>1. v \notin {0, 39} /\ v \notin 30 .. 37 /\ v \in 90 .. 97 /\ v # 38 
    BY <1>0, <1>3
  <2>2. \A c : Rendition!NewForeground(i, c) = v - 90 + 8
    BY <2>1, Zenon DEF Rendition!NewForeground
  <2>3. v - 90 + 8 \in Rendition!Colours
    BY <1>0, <1>3 DEF Rendition!Colours
  <2> QED
    BY <2>2, <2>3
<1>4. CASE v = 38 /\ (Rendition!Is256(i) \/ Rendition!IsRgb(i))
  <2>1. v \notin {0, 39} /\ v \notin 30 .. 37 /\ v \notin 90 .. 97 
    BY <1>4
  <2>2. \A c : Rendition!NewForeground(i, c) = Rendition!Extended(i)
    BY <1>4, <2>1, Zenon DEF Rendition!NewForeground
  <2> QED
    BY <1>4, <2>2, ExtendedColours
<1>5. CASE /\ v # 0 /\ v # 39 /\ ~(30 =< v /\ v =< 37) /\ ~(90 =< v /\ v =< 97)
           /\ ~(v = 38 /\ (Rendition!Is256(i) \/ Rendition!IsRgb(i)))
  <2>1. v \notin {0, 39} /\ v \notin 30 .. 37 /\ v \notin 90 .. 97 
    BY <1>5
  <2>2. \A c : Rendition!NewForeground(i, c) = c
    BY <1>5, <2>1, Zenon DEF Rendition!NewForeground
  <2> QED
    BY <2>2
<1> QED
  BY <1>1, <1>2, <1>3, <1>4, <1>5

\* A group leaves the background alone or decides it.
LEMMA BackgroundGroup ==
    ASSUME Parameters \in Seq(Nat \cup {-1}), NEW i \in 1 .. Len(Parameters)
    PROVE  \/ \A c : Rendition!NewBackground(i, c) = c
           \/ \E d \in Rendition!Colours : \A c : Rendition!NewBackground(i, c) = d
<1> DEFINE v == Rendition!Value(i)
<1>0. v \in Nat
  BY ValueType
<1>1. CASE v = 0 \/ v = 49
  <2>1. v \in {0, 49} /\ v \notin 40 .. 47 /\ v \notin 100 .. 107 /\ v # 48
    BY <1>1
  <2>2. \A c : Rendition!NewBackground(i, c) = ShellBackground
    BY <2>1, Zenon DEF Rendition!NewBackground
  <2> QED
    BY <2>2, RenditionConstants
<1>2. CASE 40 =< v /\ v =< 47
  <2>1. v \notin {0, 49} /\ v \in 40 .. 47 /\ v \notin 100 .. 107 /\ v # 48 
    BY <1>0, <1>2
  <2>2. \A c : Rendition!NewBackground(i, c) = v - 40
    BY <2>1, Zenon DEF Rendition!NewBackground
  <2>3. v - 40 \in Rendition!Colours
    BY <1>0, <1>2 DEF Rendition!Colours
  <2> QED
    BY <2>2, <2>3
<1>3. CASE 100 =< v /\ v =< 107
  <2>1. v \notin {0, 49} /\ v \notin 40 .. 47 /\ v \in 100 .. 107 /\ v # 48 
    BY <1>0, <1>3
  <2>2. \A c : Rendition!NewBackground(i, c) = v - 100 + 8
    BY <2>1, Zenon DEF Rendition!NewBackground
  <2>3. v - 100 + 8 \in Rendition!Colours
    BY <1>0, <1>3 DEF Rendition!Colours
  <2> QED
    BY <2>2, <2>3
<1>4. CASE v = 48 /\ (Rendition!Is256(i) \/ Rendition!IsRgb(i))
  <2>1. v \notin {0, 49} /\ v \notin 40 .. 47 /\ v \notin 100 .. 107 
    BY <1>4
  <2>2. \A c : Rendition!NewBackground(i, c) = Rendition!Extended(i)
    BY <1>4, <2>1, Zenon DEF Rendition!NewBackground
  <2> QED
    BY <1>4, <2>2, ExtendedColours
<1>5. CASE /\ v # 0 /\ v # 49 /\ ~(40 =< v /\ v =< 47) /\ ~(100 =< v /\ v =< 107)
           /\ ~(v = 48 /\ (Rendition!Is256(i) \/ Rendition!IsRgb(i)))
  <2>1. v \notin {0, 49} /\ v \notin 40 .. 47 /\ v \notin 100 .. 107 
    BY <1>5
  <2>2. \A c : Rendition!NewBackground(i, c) = c
    BY <1>5, <2>1, Zenon DEF Rendition!NewBackground
  <2> QED
    BY <2>2
<1> QED
  BY <1>1, <1>2, <1>3, <1>4, <1>5

\* How far a group reaches: the code steps past exactly the parameters that the
\* description of the sequence gives it.
LEMMA GroupEnd ==
    ASSUME Parameters \in Seq(Nat \cup {-1}), NEW i \in 1 .. Len(Parameters)
    PROVE  /\ Rendition!End(i) = i + Rendition!Width(i) - 1
           /\ Rendition!End(i) \in Int /\ i =< Rendition!End(i)
           /\ Rendition!End(i) =< Len(Parameters)
<1> DEFINE n == Len(Parameters)
           arguments == IF Parameters[i] \in {38, 48} /\ i < n
                        THEN CASE Parameters[i + 1] = 5 -> 2
                               [] Parameters[i + 1] = 2 -> 4
                               [] OTHER -> 0
                        ELSE 0
<1>0. Rendition!Positions = 1 .. n /\ n \in Nat
  BY DEF Rendition!Positions
<1>1. Rendition!End(i) = IF i + arguments \in 1 .. n THEN i + arguments ELSE i
  <2>1. Rendition!End(i) = IF i + arguments \in Rendition!Positions THEN i + arguments ELSE i
    BY DEF Rendition!End
  <2> HIDE DEF arguments
  <2> QED
    BY <1>0, <2>1, Zenon
<1>2. Rendition!Value(i) \in {38, 48} <=> Parameters[i] \in {38, 48}
  BY ValueType DEF Rendition!Value, Rendition!Parameter
<1>3. CASE ~(Parameters[i] \in {38, 48} /\ i < n)
  <2>1. arguments = 0
    BY <1>3
  <2>2. Rendition!Width(i) = 1
    BY <1>2, <1>3 DEF Rendition!Width, Rendition!Is256, Rendition!IsRgb
  <2> QED
    BY <1>0, <1>1, <2>1, <2>2
<1>4. CASE Parameters[i] \in {38, 48} /\ i < n
  <2>1. i + 1 \in 1 .. n /\ i + 1 - 1 = i
    BY <1>0, <1>4
  <2>2. Parameters[i + 1] \in Int
    BY <2>1, ValueType
  <2>3. CASE Parameters[i + 1] = 5
    <3>1. arguments = 2
      BY <1>4, <2>3
    <3>2. Rendition!Is256(i) <=> i + 2 =< n
      BY <1>2, <1>4, <2>3 DEF Rendition!Is256, Rendition!Parameter
    <3>3. ~Rendition!IsRgb(i)
      BY <2>3 DEF Rendition!IsRgb, Rendition!Parameter
    <3> QED
      BY <1>0, <1>1, <3>1, <3>2, <3>3 DEF Rendition!Width
  <2>4. CASE Parameters[i + 1] = 2
    <3>1. arguments = 4
      BY <1>4, <2>4
    <3>2. Rendition!IsRgb(i) <=> i + 4 =< n
      BY <1>2, <1>4, <2>4 DEF Rendition!IsRgb, Rendition!Parameter
    <3>3. ~Rendition!Is256(i)
      BY <2>4 DEF Rendition!Is256, Rendition!Parameter
    <3> QED
      BY <1>0, <1>1, <3>1, <3>2, <3>3 DEF Rendition!Width
  <2>5. CASE Parameters[i + 1] # 5 /\ Parameters[i + 1] # 2
    <3>1. arguments = 0
      BY <1>4, <2>5
    <3>2. ~Rendition!Is256(i) /\ ~Rendition!IsRgb(i)
      BY <2>2, <2>5 DEF Rendition!Is256, Rendition!IsRgb, Rendition!Parameter
    <3> QED
      BY <1>0, <1>1, <3>1, <3>2 DEF Rendition!Width
  <2> QED
    BY <2>3, <2>4, <2>5
<1> QED
  BY <1>3, <1>4

\* The groups exist: the least set that has the first parameter and with each group
\* the parameter after it.
LEMMA GroupsFollow ==
    ASSUME Parameters \in Seq(Nat \cup {-1})
    PROVE  /\ Rendition!Groups \in SUBSET (1 .. Len(Parameters))
           /\ \A p \in 1 .. Len(Parameters) :
                p \in Rendition!Groups <=>
                  p = 1 \/ \E q \in Rendition!Groups : q < p /\ Rendition!End(q) = p - 1
<1> DEFINE P == Rendition!Positions
           Follows(T, p) == p = 1 \/ \E q \in T : q < p /\ Rendition!End(q) = p - 1
           Closed == {T \in SUBSET P : \A p \in P : Follows(T, p) => p \in T}
           S == {p \in P : \A T \in Closed : p \in T}
<1>0. P = 1 .. Len(Parameters)
  BY DEF Rendition!Positions
<1>1. \A p \in P : Follows(S, p) => p \in S
  <2>1. SUFFICES ASSUME NEW p \in P, Follows(S, p), NEW T \in Closed
                 PROVE  p \in T
    OBVIOUS
  <2>2. Follows(T, p)
    BY <2>1
  <2> QED
    BY <2>2
<1>2. \A p \in S : Follows(S, p)
  <2>1. SUFFICES ASSUME NEW p \in S, ~Follows(S, p)
                 PROVE  FALSE
    OBVIOUS
  <2> DEFINE T == S \ {p}
  <2>2. T \in SUBSET P
    OBVIOUS
  <2>3. ASSUME NEW r \in P, Follows(T, r)
        PROVE  r \in T
    <3>1. Follows(S, r)
      BY <2>3
    <3>2. r \in S
      BY <1>1, <3>1
    <3> QED
      BY <2>1, <3>1, <3>2
  <2>4. T \in Closed
    BY <2>2, <2>3
  <2> QED
    BY <2>4
<1>3. S \in SUBSET P /\ \A p \in P : p \in S <=> Follows(S, p)
  BY <1>1, <1>2
<1>4. \E Q \in SUBSET P : \A p \in P : p \in Q <=> Follows(Q, p)
  BY <1>3
<1>5. /\ Rendition!Groups \in SUBSET P
      /\ \A p \in P : p \in Rendition!Groups <=> Follows(Rendition!Groups, p)
  <2> HIDE DEF S, Closed
  <2> QED
    BY <1>4, Zenon DEF Rendition!Groups
<1> QED
  BY <1>0, <1>5

\* No group begins inside another.
LEMMA NoGroupInside ==
    ASSUME Parameters \in Seq(Nat \cup {-1}), NEW i \in Rendition!Groups,
           \A q \in Rendition!Groups : q < i => Rendition!End(q) < i,
           NEW p \in Rendition!Groups, i < p
    PROVE  Rendition!End(i) < p
<1> SUFFICES ASSUME p =< Rendition!End(i)
             PROVE  FALSE
  BY GroupEnd, GroupsFollow
<1>0. Rendition!Groups \in SUBSET (1 .. Len(Parameters))
  BY GroupsFollow
<1> DEFINE S == {q \in Rendition!Groups : i < q /\ q =< Rendition!End(i)}
<1>1. S \in SUBSET Nat /\ p \in S
  <2>1. \A q \in Rendition!Groups : q \in Nat
    BY <1>0
  <2>2. S \subseteq Nat
    BY <2>1
  <2>3. p \in S
    BY DEF S
  <2> QED
    BY <2>2, <2>3
<1>2. PICK m \in S : \A k \in S : m =< k
  BY <1>1, LeastNat
<1>3. m # 1 /\ m \in 1 .. Len(Parameters) /\ i \in 1 .. Len(Parameters)
  BY <1>0
<1>4. PICK q \in Rendition!Groups : q < m /\ Rendition!End(q) = m - 1
  BY <1>3, GroupsFollow
<1>5. q \in Int /\ i \in Int /\ m \in Int /\ Rendition!End(i) \in Int
  BY <1>0, <1>3, GroupEnd
<1>6. ~(i < q)
  BY <1>2, <1>4, <1>5
<1>7. CASE q = i
  BY <1>4, <1>5, <1>7
<1>8. CASE q < i
  BY <1>4, <1>5, <1>8
<1> QED
  BY <1>5, <1>6, <1>7, <1>8

\* The groups that speak of a part of the style.
ForegroundGroups ==
    {p \in Rendition!Groups : \E c \in Rendition!Colours : Rendition!NewForeground(p, c) # c}
BackgroundGroups ==
    {p \in Rendition!Groups : \E c \in Rendition!Colours : Rendition!NewBackground(p, c) # c}
BoldGroups    == {p \in Rendition!Groups : Rendition!Value(p) \in {0, 1, 22}}
ReverseGroups == {p \in Rendition!Groups : Rendition!Value(p) \in {0, 7, 27}}

IsLast(p, S, i) == p \in S /\ p < i /\ \A q \in S : q < i => q =< p

\* At every turn the loop stands where a group begins, with all groups before it
\* behind it, and the style is what the last of them that speaks of each part says.
RenditionInv ==
    /\ RenditionTypes
    /\ Index = Len(Parameters) + 1 \/ Index \in Rendition!Groups
    /\ \A q \in Rendition!Groups : q < Index => Rendition!End(q) < Index
    /\ \A p : IsLast(p, ForegroundGroups, Index) => Foreground = Rendition!NewForeground(p, 0)
    /\ \A p : IsLast(p, BackgroundGroups, Index) => Background = Rendition!NewBackground(p, 0)
    /\ \A p : IsLast(p, BoldGroups, Index) => Bold = (Rendition!Value(p) = 1)
    /\ \A p : IsLast(p, ReverseGroups, Index) => Reverse = (Rendition!Value(p) = 7)

\* Before the first group nothing has been said.
LEMMA RenditionInvInit == Rendition!Init => RenditionInv
<1> SUFFICES ASSUME Rendition!Init
             PROVE  RenditionInv
  OBVIOUS
<1>1. PICK n \in 1 .. MaxLength : Parameters \in [1 .. n -> Values]
  BY DEF Rendition!Init
<1>2. Parameters \in Seq(Nat \cup {-1}) /\ Len(Parameters) = n /\ n \in Nat
  BY <1>1, RenditionConstants
<1>3. RenditionTypes
  <2>1. 15 \in Rendition!Colours /\ 12 \in Rendition!Colours
    BY DEF Rendition!Colours
  <2>2. Foreground \in Rendition!Colours /\ Background \in Rendition!Colours
    BY <2>1, RenditionConstants DEF Rendition!Init
  <2> QED
    BY <1>1, <1>2, <2>2, RenditionConstants DEF RenditionTypes, Rendition!Init
<1>4. Index = 1 /\ 1 \in 1 .. Len(Parameters)
  BY <1>1, <1>2 DEF Rendition!Init
<1>5. 1 \in Rendition!Groups
  BY <1>2, <1>4, GroupsFollow
<1>6. \A q \in Rendition!Groups : ~(q < 1)
  BY <1>2, GroupsFollow
<1>7. \A p : ~IsLast(p, ForegroundGroups, 1) /\ ~IsLast(p, BackgroundGroups, 1)
             /\ ~IsLast(p, BoldGroups, 1) /\ ~IsLast(p, ReverseGroups, 1)
  BY <1>6, Zenon DEF IsLast, ForegroundGroups, BackgroundGroups, BoldGroups, ReverseGroups
<1> QED
  BY <1>3, <1>4, <1>5, <1>6, <1>7, Zenon DEF RenditionInv

\* One turn moves the last group of a kind to the group just read or leaves it.
LEMMA LastMoves ==
    ASSUME Parameters \in Seq(Nat \cup {-1}), NEW i \in Rendition!Groups,
           \A q \in Rendition!Groups : q < i => Rendition!End(q) < i,
           NEW S \in SUBSET Rendition!Groups, NEW p, IsLast(p, S, Rendition!End(i) + 1)
    PROVE  (i \in S /\ p = i) \/ (i \notin S /\ IsLast(p, S, i))
<1>0. Rendition!Groups \in SUBSET (1 .. Len(Parameters)) /\ i \in 1 .. Len(Parameters)
  BY GroupsFollow
<1>1. Rendition!End(i) \in Int /\ i =< Rendition!End(i) /\ i \in Int
      /\ \A q \in S : q \in Int
  BY <1>0, GroupEnd
<1>2. p \in S /\ p < Rendition!End(i) + 1
      /\ \A q \in S : q < Rendition!End(i) + 1 => q =< p
  BY DEF IsLast
<1>3. ~(i < p)
  BY <1>1, <1>2, NoGroupInside
<1>4. CASE i \in S
  BY <1>1, <1>2, <1>3, <1>4
<1>5. CASE i \notin S
  <2>1. p < i
    BY <1>1, <1>2, <1>3, <1>5
  <2>2. \A q \in S : q < i => q =< p
    BY <1>1, <1>2
  <2> QED
    BY <1>2, <1>5, <2>1, <2>2 DEF IsLast
<1> QED
  BY <1>4, <1>5

\* The groups depend on the parameters alone.
LEMMA GroupsUnchanged ==
    ASSUME UNCHANGED Parameters
    PROVE  /\ Rendition!Groups' = Rendition!Groups
           /\ ForegroundGroups' = ForegroundGroups /\ BackgroundGroups' = BackgroundGroups
           /\ BoldGroups' = BoldGroups /\ ReverseGroups' = ReverseGroups
           /\ \A p : /\ Rendition!End(p)' = Rendition!End(p)
                     /\ Rendition!Value(p)' = Rendition!Value(p)
           /\ \A p, c : /\ Rendition!NewForeground(p, c)' = Rendition!NewForeground(p, c)
                        /\ Rendition!NewBackground(p, c)' = Rendition!NewBackground(p, c)
BY DEF Rendition!Groups, Rendition!Positions, Rendition!End, Rendition!Value,
       Rendition!Parameter, Rendition!NewForeground, Rendition!NewBackground,
       Rendition!Extended, Rendition!Is256, Rendition!IsRgb, ForegroundGroups,
       BackgroundGroups, BoldGroups, ReverseGroups

\* A turn of the loop keeps the types.
LEMMA RenditionTypesStep ==
    ASSUME RenditionTypes, Rendition!SelectGraphicRendition
    PROVE  RenditionTypes' /\ Index \in 1 .. Len(Parameters)
           /\ Index' = Rendition!End(Index) + 1
<1>1. Parameters \in Seq(Nat \cup {-1}) /\ Index \in 1 .. Len(Parameters)
  BY DEF RenditionTypes, Rendition!SelectGraphicRendition
<1>2. Index' = Rendition!End(Index) + 1 /\ Index' \in Nat /\ 1 =< Index'
      /\ Index' =< Len(Parameters) + 1
  BY <1>1, GroupEnd DEF Rendition!SelectGraphicRendition, Rendition!Width
<1>3. Foreground' \in Rendition!Colours
  BY <1>1, ForegroundGroup DEF RenditionTypes, Rendition!SelectGraphicRendition
<1>4. Background' \in Rendition!Colours
  BY <1>1, BackgroundGroup DEF RenditionTypes, Rendition!SelectGraphicRendition
<1>5. Bold' \in BOOLEAN /\ Reverse' \in BOOLEAN
  BY DEF RenditionTypes, Rendition!SelectGraphicRendition, Rendition!Switched
<1> QED
  BY <1>1, <1>2, <1>3, <1>4, <1>5 DEF RenditionTypes, Rendition!SelectGraphicRendition

\* A turn of the loop reads the next group.
LEMMA RenditionInvStep ==
    ASSUME RenditionInv, Rendition!SelectGraphicRendition
    PROVE  RenditionInv'
<1>1. RenditionTypes' /\ Index \in 1 .. Len(Parameters) /\ Index' = Rendition!End(Index) + 1
  BY RenditionTypesStep DEF RenditionInv
<1>2. UNCHANGED Parameters /\ Parameters \in Seq(Nat \cup {-1}) /\ Index \in Int
      /\ Len(Parameters) \in Nat
  BY <1>1 DEF RenditionInv, RenditionTypes, Rendition!SelectGraphicRendition
<1>3. Index \in Rendition!Groups
  BY <1>1, <1>2 DEF RenditionInv
<1>4. \A q \in Rendition!Groups : q < Index => Rendition!End(q) < Index
  BY DEF RenditionInv
<1>5. /\ Rendition!End(Index) \in Int /\ Index =< Rendition!End(Index)
      /\ Rendition!End(Index) =< Len(Parameters)
  BY <1>1, <1>2, GroupEnd
<1>6. Index' = Len(Parameters) + 1 \/ Index' \in Rendition!Groups
  <2>1. SUFFICES ASSUME Index' # Len(Parameters) + 1
                 PROVE  Index' \in Rendition!Groups
    OBVIOUS
  <2>2. Index' \in 1 .. Len(Parameters) /\ Index < Index' /\ Rendition!End(Index) = Index' - 1
    BY <1>1, <1>2, <1>5, <2>1
  <2> QED
    BY <1>2, <1>3, <2>2, GroupsFollow
<1>7. ASSUME NEW q \in Rendition!Groups, q < Index'
      PROVE  Rendition!End(q) < Index'
  <2>1. q \in 1 .. Len(Parameters)
    BY <1>2, GroupsFollow
  <2>2. Rendition!End(q) \in Int /\ q \in Int
    BY <1>2, <2>1, GroupEnd
  <2>3. CASE q < Index
    BY <1>1, <1>2, <1>4, <1>5, <2>2, <2>3
  <2>4. CASE q = Index
    BY <1>1, <1>5, <2>4
  <2>5. CASE Index < q
    BY <1>1, <1>2, <1>3, <1>4, <1>5, <1>7, <2>2, <2>5, NoGroupInside
  <2> QED
    BY <1>2, <2>2, <2>3, <2>4, <2>5
<1>8. \A p : IsLast(p, ForegroundGroups, Index') => Foreground' = Rendition!NewForeground(p, 0)
  <2>1. SUFFICES ASSUME NEW p, IsLast(p, ForegroundGroups, Index')
                 PROVE  Foreground' = Rendition!NewForeground(p, 0)
    OBVIOUS
  <2>2. Foreground' = Rendition!NewForeground(Index, Foreground) /\ Foreground \in Rendition!Colours
    BY DEF RenditionInv, RenditionTypes, Rendition!SelectGraphicRendition
  <2>3. \/ Index \in ForegroundGroups /\ p = Index
        \/ Index \notin ForegroundGroups /\ IsLast(p, ForegroundGroups, Index)
    <3>1. ForegroundGroups \in SUBSET Rendition!Groups
      BY DEF ForegroundGroups
    <3> QED
      BY <1>1, <1>2, <1>3, <1>4, <2>1, <3>1, LastMoves, Zenon
  <2>4. CASE Index \in ForegroundGroups /\ p = Index
    BY <1>1, <1>2, <2>2, <2>4, ForegroundGroup DEF ForegroundGroups
  <2>5. CASE Index \notin ForegroundGroups /\ IsLast(p, ForegroundGroups, Index)
    <3>1. Foreground' = Foreground
      BY <1>3, <2>2, <2>5 DEF ForegroundGroups
    <3> QED
      BY <2>5, <3>1 DEF RenditionInv
  <2> QED
    BY <2>3, <2>4, <2>5
<1>9. \A p : IsLast(p, BackgroundGroups, Index') => Background' = Rendition!NewBackground(p, 0)
  <2>1. SUFFICES ASSUME NEW p, IsLast(p, BackgroundGroups, Index')
                 PROVE  Background' = Rendition!NewBackground(p, 0)
    OBVIOUS
  <2>2. Background' = Rendition!NewBackground(Index, Background) /\ Background \in Rendition!Colours
    BY DEF RenditionInv, RenditionTypes, Rendition!SelectGraphicRendition
  <2>3. \/ Index \in BackgroundGroups /\ p = Index
        \/ Index \notin BackgroundGroups /\ IsLast(p, BackgroundGroups, Index)
    <3>1. BackgroundGroups \in SUBSET Rendition!Groups
      BY DEF BackgroundGroups
    <3> QED
      BY <1>1, <1>2, <1>3, <1>4, <2>1, <3>1, LastMoves, Zenon
  <2>4. CASE Index \in BackgroundGroups /\ p = Index
    BY <1>1, <1>2, <2>2, <2>4, BackgroundGroup DEF BackgroundGroups
  <2>5. CASE Index \notin BackgroundGroups /\ IsLast(p, BackgroundGroups, Index)
    <3>1. Background' = Background
      BY <1>3, <2>2, <2>5 DEF BackgroundGroups
    <3> QED
      BY <2>5, <3>1 DEF RenditionInv
  <2> QED
    BY <2>3, <2>4, <2>5
<1>10. \A p : IsLast(p, BoldGroups, Index') => Bold' = (Rendition!Value(p) = 1)
  <2>1. SUFFICES ASSUME NEW p, IsLast(p, BoldGroups, Index')
                 PROVE  Bold' = (Rendition!Value(p) = 1)
    OBVIOUS
  <2>2. \/ Index \in BoldGroups /\ p = Index
        \/ Index \notin BoldGroups /\ IsLast(p, BoldGroups, Index)
    <3>1. BoldGroups \in SUBSET Rendition!Groups
      BY DEF BoldGroups
    <3> QED
      BY <1>1, <1>2, <1>3, <1>4, <2>1, <3>1, LastMoves, Zenon
  <2>3. Bold' = Rendition!Switched(Index, Bold, 1, 22) /\ Bold \in BOOLEAN
    BY DEF RenditionInv, RenditionTypes, Rendition!SelectGraphicRendition
  <2>4. CASE Index \in BoldGroups /\ p = Index
    BY <2>3, <2>4 DEF BoldGroups, Rendition!Switched
  <2>5. CASE Index \notin BoldGroups /\ IsLast(p, BoldGroups, Index)
    <3>1. Bold' = Bold
      BY <1>3, <2>3, <2>5 DEF BoldGroups, Rendition!Switched
    <3> QED
      BY <2>5, <3>1 DEF RenditionInv
  <2> QED
    BY <2>2, <2>4, <2>5
<1>11. \A p : IsLast(p, ReverseGroups, Index') => Reverse' = (Rendition!Value(p) = 7)
  <2>1. SUFFICES ASSUME NEW p, IsLast(p, ReverseGroups, Index')
                 PROVE  Reverse' = (Rendition!Value(p) = 7)
    OBVIOUS
  <2>2. \/ Index \in ReverseGroups /\ p = Index
        \/ Index \notin ReverseGroups /\ IsLast(p, ReverseGroups, Index)
    <3>1. ReverseGroups \in SUBSET Rendition!Groups
      BY DEF ReverseGroups
    <3> QED
      BY <1>1, <1>2, <1>3, <1>4, <2>1, <3>1, LastMoves, Zenon
  <2>3. Reverse' = Rendition!Switched(Index, Reverse, 7, 27) /\ Reverse \in BOOLEAN
    BY DEF RenditionInv, RenditionTypes, Rendition!SelectGraphicRendition
  <2>4. CASE Index \in ReverseGroups /\ p = Index
    BY <2>3, <2>4 DEF ReverseGroups, Rendition!Switched
  <2>5. CASE Index \notin ReverseGroups /\ IsLast(p, ReverseGroups, Index)
    <3>1. Reverse' = Reverse
      BY <1>3, <2>3, <2>5 DEF ReverseGroups, Rendition!Switched
    <3> QED
      BY <2>5, <3>1 DEF RenditionInv
  <2> QED
    BY <2>2, <2>4, <2>5
<1> QED
  <2>1. (Index = Len(Parameters) + 1 \/ Index \in Rendition!Groups)'
    BY <1>2, <1>6, GroupsUnchanged
  <2>2. (\A q \in Rendition!Groups : q < Index => Rendition!End(q) < Index)'
    BY <1>2, <1>7, GroupsUnchanged
  <2>3. (\A p : IsLast(p, ForegroundGroups, Index) => Foreground = Rendition!NewForeground(p, 0))'
    BY <1>2, <1>8, GroupsUnchanged DEF IsLast
  <2>4. (\A p : IsLast(p, BackgroundGroups, Index) => Background = Rendition!NewBackground(p, 0))'
    BY <1>2, <1>9, GroupsUnchanged DEF IsLast
  <2>5. (\A p : IsLast(p, BoldGroups, Index) => Bold = (Rendition!Value(p) = 1))'
    BY <1>2, <1>10, GroupsUnchanged DEF IsLast
  <2>6. (\A p : IsLast(p, ReverseGroups, Index) => Reverse = (Rendition!Value(p) = 7))'
    BY <1>2, <1>11, GroupsUnchanged DEF IsLast
  <2> QED
    BY <1>1, <2>1, <2>2, <2>3, <2>4, <2>5, <2>6 DEF RenditionInv

\* A step of another part changes nothing.
LEMMA RenditionInvStutter ==
    ASSUME RenditionInv, UNCHANGED Rendition!vars
    PROVE  RenditionInv'
<1>1. UNCHANGED Parameters /\ UNCHANGED <<Index, Foreground, Background, Bold, Reverse>>
  BY DEF Rendition!vars, Rendition!style
<1> QED
  BY <1>1, GroupsUnchanged DEF RenditionInv, RenditionTypes, IsLast

\* The type invariant that the run checks.
LEMMA RenditionTypeOK == RenditionInv => Rendition!TypeOK
<1> SUFFICES ASSUME RenditionInv
             PROVE  Rendition!TypeOK
  OBVIOUS
<1>1. RenditionTypes /\ Len(Parameters) \in Nat
  BY DEF RenditionInv, RenditionTypes
<1>2. Rendition!TerminalAttribute \in 0 .. 127
  <2>1. /\ Foreground \in Nat /\ Foreground =< 15 /\ Background \in Nat /\ Background =< 15
    BY <1>1 DEF RenditionTypes, Rendition!Colours
  <2>2. PICK f \in 0 .. 15 : f = IF Bold /\ Foreground < 8 THEN Foreground + 8 ELSE Foreground
    BY <2>1
  <2>3. Rendition!TerminalAttribute =
          IF Reverse THEN Background + 16 * (f % 8) ELSE f + 16 * (Background % 8)
    BY <2>2, Zenon DEF Rendition!TerminalAttribute
  <2>4. f % 8 \in 0 .. 7 /\ Background % 8 \in 0 .. 7
    BY <2>1
  <2> QED
    BY <2>1, <2>3, <2>4
<1> QED
  BY <1>1, <1>2, RenditionConstants DEF RenditionTypes, Rendition!TypeOK

\* When the loop is done the last group that speaks of a part has decided it.
LEMMA LastDecides == RenditionInv => Rendition!LastGroupDecides
<1> SUFFICES ASSUME RenditionInv, Rendition!Done
             PROVE  /\ ForegroundGroups # {} =>
                         Foreground = Rendition!NewForeground(Rendition!Max(ForegroundGroups), 0)
                    /\ BackgroundGroups # {} =>
                         Background = Rendition!NewBackground(Rendition!Max(BackgroundGroups), 0)
                    /\ BoldGroups # {} => Bold = (Rendition!Value(Rendition!Max(BoldGroups)) = 1)
                    /\ ReverseGroups # {} =>
                         Reverse = (Rendition!Value(Rendition!Max(ReverseGroups)) = 7)
  BY Zenon DEF Rendition!LastGroupDecides, ForegroundGroups, BackgroundGroups, BoldGroups,
               ReverseGroups
<1>1. Parameters \in Seq(Nat \cup {-1}) /\ Len(Parameters) \in Nat /\ Index = Len(Parameters) + 1
  BY DEF RenditionInv, RenditionTypes, Rendition!Done
<1>2. Rendition!Groups \in SUBSET (1 .. Len(Parameters))
  BY <1>1, GroupsFollow
<1>3. ASSUME NEW S \in SUBSET Rendition!Groups, S # {}
      PROVE  IsLast(Rendition!Max(S), S, Index)
  <2>1. S \in SUBSET Nat /\ \A k \in S : k =< Len(Parameters) /\ k \in Nat
    BY <1>1, <1>2
  <2>2. \E m \in S : \A k \in S : m >= k
    BY <1>1, <1>3, <2>1, GreatestNat
  <2>3. PICK m \in S : m = Rendition!Max(S) /\ \A k \in S : m >= k
    BY <2>2, Zenon DEF Rendition!Max
  <2> QED
    BY <1>1, <2>1, <2>3 DEF IsLast
<1>4. /\ ForegroundGroups \in SUBSET Rendition!Groups
      /\ BackgroundGroups \in SUBSET Rendition!Groups
      /\ BoldGroups \in SUBSET Rendition!Groups /\ ReverseGroups \in SUBSET Rendition!Groups
  BY Zenon DEF ForegroundGroups, BackgroundGroups, BoldGroups, ReverseGroups
<1> QED
  BY <1>3, <1>4, Zenon DEF RenditionInv

-----------------------------------------------------------------------------
(***************************************************************************)
(* Life and replies (WolfSshTerminalCreate, WolfSshTerminalDestroy,        *)
(* QueueReply, WolfSshTerminalTakeResponse).                               *)
(***************************************************************************)
Reply == (1 .. MaxReplies) \X Nat

\* TypeOK in parts: what is true or false, the life of the terminal, its replies.
FlagsOK ==
    /\ refused \in BOOLEAN /\ CursorVisible \in BOOLEAN /\ cursorOn \in BOOLEAN
    /\ overflowed \in BOOLEAN
LifeOK ==
    /\ phase \in {"start", "connected", "open", "closed", "failed"}
    /\ mode \in Sizes \cup {Terminal!Absent}
    /\ pty \in Sizes \cup {Terminal!Default, Terminal!Unknown} /\ size \in Sizes \cup {Terminal!Default, Terminal!Unknown}
    /\ pools \subseteq Terminal!Pools
    /\ DefaultForeground \in 0 .. 15 /\ DefaultBackground \in 0 .. 7
    /\ attribute \in 0 .. 255 /\ found \in ConsoleAttributes
RepliesOK ==
    /\ Replies \in Seq(Reply) /\ Len(Replies) =< ReplySize /\ sent \in Seq(Reply)
    /\ asked \in Nat /\ demand \in Nat /\ queries \in 0 .. MaxReplies

\* The type invariant, in three parts.
LEMMA TypeParts == Terminal!TypeOK <=> FlagsOK /\ LifeOK /\ RepliesOK
BY DEF Terminal!TypeOK, FlagsOK, LifeOK, RepliesOK, Reply

-----------------------------------------------------------------------------
(***************************************************************************)
(* Life.                                                                   *)
(***************************************************************************)

\* Before the terminal is open the console is as it was found, and its defaults are
\* zeroes; once it is open they are the colours it found.  This is what the two ways
\* through WolfSshTerminalDestroy go back to.
Console ==
    /\ phase \in {"start", "connected"} =>
         /\ attribute = found /\ cursorOn
         /\ DefaultForeground = 0 /\ DefaultBackground = 0
    /\ phase = "open" =>
         DefaultForeground = found % 16 /\ DefaultBackground = (found \div 16) % 8

\* The sizes, as functions of what the console reports when it does not refuse.
Told ==
    /\ phase = "start" => pty = Terminal!Unknown
    /\ pty # Terminal!Unknown /\ ~refused => pty = Terminal!PtySize(mode)
    /\ phase = "open" => mode \in Sizes
    /\ phase = "open" /\ ~refused => size = Terminal!Usable(mode, Max16)

\* The flags and the sizes keep their types,
LEMMA FlagsStep ==
    ASSUME FlagsOK, (Terminal!Next \/ UNCHANGED Terminal!vars)
    PROVE  FlagsOK'
<1> USE DEF FlagsOK
<1>1. CASE Terminal!GetTerminalInfo
  BY <1>1, Zenon DEF Terminal!GetTerminalInfo, Terminal!console, Terminal!answers
<1>2. CASE Terminal!NoConsole
  BY <1>2, Zenon DEF Terminal!NoConsole, Terminal!console, Terminal!answers
<1>3. CASE Terminal!Create
  BY <1>3, Zenon DEF Terminal!Create, Terminal!DestroyConsole, Terminal!answers
<1>4. CASE Terminal!Destroy
  BY <1>4, Zenon DEF Terminal!Destroy, Terminal!DestroyConsole, Terminal!answers
<1>5. CASE Terminal!Flush
  BY <1>5, Zenon DEF Terminal!Flush, Terminal!screen, Terminal!answers
<1>6. CASE Terminal!SetCursorMode
  BY <1>6, Zenon DEF Terminal!SetCursorMode, Terminal!screen, Terminal!answers
<1>7. CASE Terminal!QueueReply
  BY <1>7, Zenon DEF Terminal!QueueReply, Terminal!screen, Terminal!console
<1>8. CASE Terminal!TakeResponse
  BY <1>8, Zenon DEF Terminal!TakeResponse, Terminal!screen, Terminal!console
<1>9. CASE UNCHANGED Terminal!vars
  BY <1>9, Zenon DEF Terminal!vars, Terminal!screen, Terminal!console, Terminal!answers
<1> QED
  BY <1>1, <1>2, <1>3, <1>4, <1>5, <1>6, <1>7, <1>8, <1>9 DEF Terminal!Next, Terminal!Lifecycle

\* A size that is used or told is one the console reported, or the default.
LEMMA UsableSize ==
    ASSUME LifeOK, NEW answer \in Terminal!Answers, NEW limit
    PROVE  Terminal!Usable(answer, limit) \in Sizes \cup {Terminal!Default}
<1>1. answer \in Sizes \cup {Terminal!Absent, Terminal!Unknown}
  BY DEF Terminal!Answers, LifeOK
<1>2. Len(Terminal!Absent) = 1 /\ Len(Terminal!Unknown) = 0
  BY DEF Terminal!Absent, Terminal!Unknown
<1> QED
  BY <1>1, <1>2 DEF Terminal!Usable

\* so does what the life of the terminal has,
LEMMA LifeOKStep ==
    ASSUME Terminal!TerminalAssumption, LifeOK, (Terminal!Next \/ UNCHANGED Terminal!vars)
    PROVE  LifeOK'
<1>0. ConsoleAttributes \subseteq 0 .. 255
  BY DEF Terminal!TerminalAssumption
<1>1. CASE Terminal!GetTerminalInfo
  BY <1>1, UsableSize DEF Terminal!GetTerminalInfo, LifeOK, Terminal!PtySize, Terminal!console
<1>2. CASE Terminal!NoConsole
  BY <1>2 DEF Terminal!NoConsole, LifeOK, Terminal!console
<1>3. CASE Terminal!Create
  <2>1. PICK answer \in Terminal!Answers, got \in SUBSET Terminal!Pools :
          /\ size' = Terminal!Usable(answer, Max16)
          /\ IF Terminal!AllAllocated(got)
             THEN /\ phase' = "open" /\ pools' = got
                  /\ DefaultForeground' = attribute % 16
                  /\ DefaultBackground' = (attribute \div 16) % 8
                  /\ attribute' = attribute
             ELSE /\ phase' = "failed" /\ pools' = {}
                  /\ IF got = {} THEN attribute' = attribute
                     ELSE attribute' = Terminal!EFI_TEXT_ATTR(DefaultForeground, DefaultBackground)
                  /\ UNCHANGED <<DefaultForeground, DefaultBackground>>
    BY <1>3, Zenon DEF Terminal!Create, Terminal!DestroyConsole
  <2>2. mode' = mode /\ pty' = pty /\ found' = found
    BY <1>3, Zenon DEF Terminal!Create
  <2>3. size' \in Sizes \cup {Terminal!Default}
    BY <2>1, UsableSize
  <2>4. attribute' \in 0 .. 255 /\ DefaultForeground' \in 0 .. 15 /\ DefaultBackground' \in 0 .. 7
    BY <2>1 DEF LifeOK, Terminal!EFI_TEXT_ATTR
  <2>5. phase' \in {"open", "failed"} /\ pools' \subseteq Terminal!Pools
    BY <2>1
  <2> QED
    BY <2>2, <2>3, <2>4, <2>5 DEF LifeOK
<1>4. CASE Terminal!Destroy
  <2>1. /\ phase' = "closed" /\ pools' = pools \ Terminal!Pools
        /\ attribute' = Terminal!EFI_TEXT_ATTR(DefaultForeground, DefaultBackground)
        /\ UNCHANGED <<mode, pty, size, DefaultForeground, DefaultBackground, found>>
    BY <1>4, Zenon DEF Terminal!Destroy, Terminal!DestroyConsole
  <2> QED
    BY <2>1 DEF LifeOK, Terminal!EFI_TEXT_ATTR
<1>5. CASE Terminal!Flush
  BY <1>0, <1>5 DEF Terminal!Flush, LifeOK, Terminal!screen
<1>6. CASE Terminal!SetCursorMode
  BY <1>6 DEF Terminal!SetCursorMode, LifeOK, Terminal!screen
<1>7. CASE Terminal!QueueReply \/ Terminal!TakeResponse \/ UNCHANGED Terminal!vars
  <2>1. UNCHANGED <<Terminal!screen, Terminal!console>>
    BY <1>7 DEF Terminal!QueueReply, Terminal!TakeResponse, Terminal!vars
  <2> QED
    BY <2>1 DEF LifeOK, Terminal!screen, Terminal!console
<1> QED
  BY <1>1, <1>2, <1>3, <1>4, <1>5, <1>6, <1>7 DEF Terminal!Next, Terminal!Lifecycle

\* The steps of the replies leave the terminal and the console alone.
LEMMA RepliesApart ==
    ASSUME Terminal!QueueReply \/ Terminal!TakeResponse \/ UNCHANGED Terminal!vars
    PROVE  UNCHANGED <<phase, mode, pty, size, refused, pools, DefaultForeground,
                       DefaultBackground, CursorVisible, attribute, cursorOn, found>>
BY DEF Terminal!QueueReply, Terminal!TakeResponse, Terminal!vars, Terminal!screen, Terminal!console

\* and the console is restored when the terminal is gone.
LEMMA ConsoleStep ==
    ASSUME Terminal!TerminalAssumption, LifeOK, FlagsOK, Console, Terminal!ConsoleRestored, Terminal!MemoryComplete,
           (Terminal!Next \/ UNCHANGED Terminal!vars)
    PROVE  Console' /\ Terminal!ConsoleRestored' /\ Terminal!MemoryComplete'
<1> USE DEF Console, Terminal!ConsoleRestored, Terminal!MemoryComplete
<1>0. found \in 0 .. 255 /\ attribute \in 0 .. 255 /\ cursorOn \in BOOLEAN
      /\ phase \in {"start", "connected", "open", "closed", "failed"}
  BY DEF LifeOK, FlagsOK, Terminal!TerminalAssumption
<1>1. CASE Terminal!GetTerminalInfo
  BY <1>0, <1>1, Zenon DEF Terminal!GetTerminalInfo, Terminal!console
<1>2. CASE Terminal!NoConsole
  BY <1>0, <1>2, Zenon DEF Terminal!NoConsole, Terminal!console
<1>3. CASE Terminal!Create
  <2>1. /\ attribute = found /\ cursorOn = TRUE
        /\ DefaultForeground = 0 /\ DefaultBackground = 0 /\ found' = found
    BY <1>0, <1>3, Zenon DEF Terminal!Create
  <2>2. Terminal!EFI_TEXT_ATTR(0, 0) = 0
    BY DEF Terminal!EFI_TEXT_ATTR
  <2>3. \/ /\ phase' = "open" /\ pools' = Terminal!Pools
           /\ DefaultForeground' = attribute % 16
           /\ DefaultBackground' = (attribute \div 16) % 8
        \/ /\ phase' = "failed" /\ pools' = {}
           /\ attribute' \in {attribute, Terminal!EFI_TEXT_ATTR(DefaultForeground, DefaultBackground)}
           /\ cursorOn' \in {cursorOn, TRUE}
    BY <1>3, Zenon DEF Terminal!Create, Terminal!AllAllocated, Terminal!DestroyConsole
  <2>4. CASE /\ phase' = "open" /\ pools' = Terminal!Pools
             /\ DefaultForeground' = attribute % 16
             /\ DefaultBackground' = (attribute \div 16) % 8
    BY <2>1, <2>4, Zenon
  <2>5. CASE /\ phase' = "failed" /\ pools' = {}
             /\ attribute' \in {attribute, Terminal!EFI_TEXT_ATTR(DefaultForeground, DefaultBackground)}
             /\ cursorOn' \in {cursorOn, TRUE}
    BY <2>1, <2>2, <2>5, Zenon
  <2> QED
    BY <2>3, <2>4, <2>5
<1>4. CASE Terminal!Destroy
  <2>1. /\ phase = "open" /\ phase' = "closed" /\ pools' = pools \ Terminal!Pools
        /\ attribute' = Terminal!EFI_TEXT_ATTR(DefaultForeground, DefaultBackground)
        /\ cursorOn' = TRUE /\ found' = found
    BY <1>4, Zenon DEF Terminal!Destroy, Terminal!DestroyConsole
  <2>2. Terminal!EFI_TEXT_ATTR(found % 16, (found \div 16) % 8) = found % 128
    BY <1>0 DEF Terminal!EFI_TEXT_ATTR
  <2>3. pools = Terminal!Pools /\ DefaultForeground = found % 16
        /\ DefaultBackground = (found \div 16) % 8
    BY <2>1, Zenon
  <2>4. pools' = {}
    BY <2>1, <2>3
  <2> QED
    BY <2>1, <2>2, <2>3, <2>4, Zenon
<1>5. CASE Terminal!Flush
  BY <1>0, <1>5, Zenon DEF Terminal!Flush, Terminal!screen
<1>6. CASE Terminal!SetCursorMode
  BY <1>0, <1>6, Zenon DEF Terminal!SetCursorMode, Terminal!screen
<1>7. CASE Terminal!QueueReply \/ Terminal!TakeResponse \/ UNCHANGED Terminal!vars
  BY <1>0, <1>7, RepliesApart, Zenon
<1> QED
  BY <1>1, <1>2, <1>3, <1>4, <1>5, <1>6, <1>7 DEF Terminal!Next, Terminal!Lifecycle

\* Both questions about the size get the console's answer unless it refuses one.
LEMMA ToldStep ==
    ASSUME LifeOK, FlagsOK, Told, (Terminal!Next \/ UNCHANGED Terminal!vars)
    PROVE  Told'
<1> USE DEF Told
<1>0. refused \in BOOLEAN /\ mode \in Sizes \cup {Terminal!Absent}
  BY DEF FlagsOK, LifeOK
<1>1. CASE Terminal!GetTerminalInfo
  <2>1. PICK answer \in Terminal!Answers :
          pty' = Terminal!PtySize(answer) /\ refused' = (refused \/ answer = Terminal!Unknown)
    BY <1>1 DEF Terminal!GetTerminalInfo
  <2>2. phase' = "connected" /\ mode' = mode
    BY <1>1 DEF Terminal!GetTerminalInfo
  <2>3. ~refused' => answer = mode
    BY <2>1, Zenon DEF Terminal!Answers
  <2>4. ~refused' => pty' = Terminal!PtySize(mode)
    BY <2>1, <2>3, Zenon
  <2> QED
    BY <2>2, <2>4 DEF Terminal!PtySize, Terminal!Usable
<1>2. CASE Terminal!NoConsole
  BY <1>2 DEF Terminal!NoConsole
<1>3. CASE Terminal!Create
  <2>1. PICK answer \in Terminal!Answers :
          /\ refused' = (refused \/ answer = Terminal!Unknown)
          /\ size' = Terminal!Usable(answer, Max16)
          /\ phase' \in {"open", "failed"}
    BY <1>3, Zenon DEF Terminal!Create
  <2>2. mode' = mode /\ pty' = pty /\ mode # Terminal!Absent
    BY <1>3, Zenon DEF Terminal!Create
  <2>3. ~refused' => answer = mode /\ ~refused
    BY <2>1, Zenon DEF Terminal!Answers
  <2>4. ~refused' => size' = Terminal!Usable(mode, Max16)
    BY <2>1, <2>3, Zenon
  <2> QED
    BY <1>0, <2>1, <2>2, <2>3, <2>4 DEF Terminal!PtySize, Terminal!Usable
<1>4. CASE Terminal!Destroy
  BY <1>4 DEF Terminal!Destroy, Terminal!PtySize, Terminal!Usable
<1>5. CASE Terminal!Flush
  BY <1>5 DEF Terminal!Flush, Terminal!screen, Terminal!PtySize, Terminal!Usable
<1>6. CASE Terminal!SetCursorMode
  BY <1>6 DEF Terminal!SetCursorMode, Terminal!screen, Terminal!PtySize, Terminal!Usable
<1>7. CASE Terminal!QueueReply \/ Terminal!TakeResponse \/ UNCHANGED Terminal!vars
  BY <1>7, RepliesApart DEF Terminal!PtySize, Terminal!Usable
<1> QED
  BY <1>1, <1>2, <1>3, <1>4, <1>5, <1>6, <1>7 DEF Terminal!Next, Terminal!Lifecycle

\* What was told is what the terminal has.
LEMMA ToldAgrees ==
    ASSUME Terminal!TerminalAssumption, Told
    PROVE  Terminal!SizesAgree
<1> SUFFICES ASSUME phase = "open", pty # Terminal!Unknown, ~refused,
                    ~(mode[1] > Max16), ~(mode[2] > Max16)
             PROVE  size = pty
  BY DEF Terminal!SizesAgree
<1>1. mode \in Sizes /\ size = Terminal!Usable(mode, Max16) /\ pty = Terminal!Usable(mode, Max32)
  BY DEF Told, Terminal!PtySize
<1>2. mode[1] \in 0 .. Max16 /\ mode[2] \in 0 .. Max16 /\ Max16 =< Max32
      /\ Max16 \in Nat /\ Max32 \in Nat
  BY <1>1 DEF Terminal!TerminalAssumption
<1> QED
  BY <1>1, <1>2 DEF Terminal!Usable

-----------------------------------------------------------------------------
(***************************************************************************)
(* Replies.                                                                *)
(***************************************************************************)

\* RepliesInOrder is inductive once no byte belongs to a query that is still to
\* come; RepliesWhole needs that the demand counts at least what is queued.
Numbered == \A p \in DOMAIN Terminal!Stream : Terminal!Stream[p][1] =< queries
Counted  == ~overflowed => Len(Terminal!Stream) = asked /\ (Replies # << >> => Len(Replies) =< demand)

Order == Terminal!RepliesInOrder /\ Numbered /\ Counted

\* The replies that were sent, followed by those that wait, are a sequence.
LEMMA StreamType ==
    ASSUME RepliesOK
    PROVE  /\ Terminal!Stream \in Seq(Reply) /\ Len(Terminal!Stream) = Len(sent) + Len(Replies)
           /\ DOMAIN Terminal!Stream = 1 .. Len(Terminal!Stream) /\ Len(Terminal!Stream) \in Nat
BY ConcatProperties DEF RepliesOK, Terminal!Stream

\* So they are after a step.
LEMMA StreamTypeNext ==
    ASSUME RepliesOK'
    PROVE  /\ Terminal!Stream' \in Seq(Reply) /\ Len(Terminal!Stream') = Len(sent') + Len(Replies')
           /\ DOMAIN Terminal!Stream' = 1 .. Len(Terminal!Stream') /\ Len(Terminal!Stream') \in Nat
BY ConcatProperties DEF RepliesOK, Terminal!Stream

\* The bytes that TakeResponse hands on leave the stream as a whole as it was.
LEMMA TakeKeepsStream ==
    ASSUME RepliesOK, RepliesOK', NEW n \in 0 .. Len(Replies),
           sent' = sent \o SubSeq(Replies, 1, n), Replies' = Terminal!Rest(n)
    PROVE  Terminal!Stream' = Terminal!Stream
<1> DEFINE a == SubSeq(Replies, 1, n)
           b == SubSeq(Replies, n + 1, Len(Replies))
<1>1. Replies \in Seq(Reply) /\ sent \in Seq(Reply) /\ Len(Replies) \in Nat
  BY DEF RepliesOK
<1>2. a \in Seq(Reply) /\ Len(a) = n /\ \A k \in 1 .. n : a[k] = Replies[k]
  <2>1. 1 \in 1 .. Len(Replies) + 1 /\ n \in 1 - 1 .. Len(Replies)
    BY <1>1
  <2>2. \A k \in 1 .. n : 1 + k - 1 = k
    OBVIOUS
  <2> QED
    BY <1>1, <2>1, <2>2, SubSeqProperties
<1>3. /\ b \in Seq(Reply) /\ Len(b) = Len(Replies) - n
      /\ \A k \in 1 .. Len(Replies) - n : b[k] = Replies[n + k]
  <2>1. n + 1 \in 1 .. Len(Replies) + 1 /\ Len(Replies) \in (n + 1) - 1 .. Len(Replies)
    BY <1>1
  <2>2. Len(Replies) - (n + 1) + 1 = Len(Replies) - n
        /\ \A k \in 1 .. Len(Replies) - n : (n + 1) + k - 1 = n + k
    BY <1>1
  <2>3. /\ b \in Seq(Reply)
        /\ Len(b) = IF n + 1 =< Len(Replies) THEN Len(Replies) - (n + 1) + 1 ELSE 0
        /\ \A k \in 1 .. Len(Replies) - (n + 1) + 1 : b[k] = Replies[(n + 1) + k - 1]
    <3>1. n + 1 \in Int /\ Len(Replies) \in Int
      BY <1>1
    <3>2. \A i \in n + 1 .. Len(Replies) : Replies[i] \in Reply
      BY <1>1, ElementOfSeq
    <3>3. \A lo, hi \in Int : (\A i \in lo .. hi : Replies[i] \in Reply) =>
            /\ SubSeq(Replies, lo, hi) \in Seq(Reply)
            /\ Len(SubSeq(Replies, lo, hi)) = IF lo =< hi THEN hi - lo + 1 ELSE 0
            /\ \A i \in 1 .. hi - lo + 1 : SubSeq(Replies, lo, hi)[i] = Replies[lo + i - 1]
      BY SubSeqProperties
    <3> QED
      BY <3>1, <3>2, <3>3, Zenon
  <2> HIDE DEF b
  <2>4. Len(b) = Len(Replies) - n
    BY <1>1, <2>3
  <2> QED
    BY <2>2, <2>3, <2>4
<1> HIDE DEF a, b
<1>4. /\ a \o b \in Seq(Reply) /\ Len(a \o b) = Len(Replies)
      /\ \A k \in 1 .. Len(Replies) : (a \o b)[k] = Replies[k]
  <2> DEFINE c == a \o b
  <2>1. /\ c \in Seq(Reply) /\ Len(c) = Len(a) + Len(b)
        /\ \A k \in 1 .. Len(a) + Len(b) : c[k] = IF k =< Len(a) THEN a[k] ELSE b[k - Len(a)]
    BY <1>2, <1>3, ConcatProperties, Zenon
  <2> HIDE DEF c
  <2>2. Len(a) + Len(b) = Len(Replies)
    BY <1>1, <1>2, <1>3
  <2>3. \A k \in 1 .. Len(Replies) : k > n => k - n \in 1 .. Len(Replies) - n /\ n + (k - n) = k
    BY <1>1
  <2>4. \A k \in 1 .. Len(Replies) : c[k] = Replies[k]
    <3> TAKE k \in 1 .. Len(Replies)
    <3>1. c[k] = IF k =< n THEN a[k] ELSE b[k - n]
      BY <1>2, <2>1, <2>2
    <3>2. CASE k =< n
      BY <1>2, <3>1, <3>2
    <3>3. CASE k > n
      BY <1>3, <2>3, <3>1, <3>3
    <3> QED
      BY <3>2, <3>3
  <2> QED
    BY <2>1, <2>2, <2>4, Zenon DEF c
<1>5. a \o b = Replies
  BY <1>1, <1>4, SeqEqual
<1>6. (sent \o a) \o b = sent \o (a \o b)
  <2>1. \A s1, s2, s3 \in Seq(Reply) : (s1 \o s2) \o s3 = s1 \o (s2 \o s3)
    BY ConcatAssociative
  <2> QED
    BY <1>1, <1>2, <1>3, <2>1, Zenon
<1> QED
  BY <1>5, <1>6, Zenon DEF a, b, Terminal!Stream, Terminal!Rest

\* A reply, cut to what fits, as QueueReply appends it.
Piece(length) == [k \in 1 .. Terminal!Fitting(length) |-> <<queries + 1, k>>]

\* What QueueReply finds room for is a beginning of the reply.
LEMMA PieceType ==
    ASSUME Terminal!TerminalAssumption, RepliesOK, NEW length \in ReplyLengths, queries < MaxReplies
    PROVE  /\ Terminal!Fitting(length) \in 0 .. length /\ length \in Nat
           /\ Len(Replies) + Terminal!Fitting(length) =< ReplySize
           /\ (Len(Replies) + length =< ReplySize => Terminal!Fitting(length) = length)
           /\ Piece(length) \in Seq(Reply) /\ Len(Piece(length)) = Terminal!Fitting(length)
           /\ \A k \in 1 .. Terminal!Fitting(length) : Piece(length)[k] = <<queries + 1, k>>
<1>1. /\ length \in Nat /\ ReplySize \in Nat /\ Len(Replies) \in 0 .. ReplySize
      /\ queries + 1 \in 1 .. MaxReplies
  BY DEF Terminal!TerminalAssumption, RepliesOK
<1>2. /\ Terminal!Fitting(length) \in 0 .. length /\ Len(Replies) + Terminal!Fitting(length) =< ReplySize
      /\ (Len(Replies) + length =< ReplySize => Terminal!Fitting(length) = length)
  BY <1>1 DEF Terminal!Fitting, Terminal!Lesser
<1>3. \A k \in 1 .. Terminal!Fitting(length) : <<queries + 1, k>> \in Reply
  BY <1>1, <1>2 DEF Reply
<1>4. Piece(length) \in Seq(Reply) /\ Len(Piece(length)) = Terminal!Fitting(length)
  BY <1>2, <1>3 DEF Piece
<1> QED
  BY <1>1, <1>2, <1>4 DEF Piece

\* The replies keep their types,
LEMMA RepliesOKStep ==
    ASSUME Terminal!TerminalAssumption, RepliesOK, (Terminal!Next \/ UNCHANGED Terminal!vars)
    PROVE  RepliesOK'
<1>1. CASE Terminal!QueueReply
  <2>1. PICK length \in ReplyLengths :
          /\ Replies' = Replies \o Piece(length) /\ asked' = asked + length
          /\ demand' = (IF Replies = << >> THEN 0 ELSE demand) + length
    BY <1>1 DEF Terminal!QueueReply, Piece
  <2>2. queries < MaxReplies /\ queries' = queries + 1 /\ sent' = sent
    BY <1>1 DEF Terminal!QueueReply
  <2>3. /\ length \in Nat /\ Piece(length) \in Seq(Reply)
        /\ Len(Replies) + Len(Piece(length)) =< ReplySize
    BY <2>2, PieceType
  <2>4. Replies' \in Seq(Reply) /\ Len(Replies') =< ReplySize
    BY <2>1, <2>3, ConcatProperties DEF RepliesOK
  <2>5. asked \in Nat /\ demand \in Nat /\ queries \in 0 .. MaxReplies /\ sent \in Seq(Reply)
    BY DEF RepliesOK
  <2>6. asked' \in Nat /\ demand' \in Nat /\ queries' \in 0 .. MaxReplies
    BY <2>1, <2>2, <2>3, <2>5 DEF Terminal!TerminalAssumption
  <2> QED
    BY <2>2, <2>4, <2>5, <2>6 DEF RepliesOK
<1>2. CASE Terminal!TakeResponse
  <2>1. PICK room \in Capacities :
          /\ sent' = sent \o SubSeq(Replies, 1, Terminal!Lesser(room, Len(Replies)))
          /\ Replies' = Terminal!Rest(Terminal!Lesser(room, Len(Replies)))
    BY <1>2 DEF Terminal!TakeResponse
  <2> DEFINE n == Terminal!Lesser(room, Len(Replies))
  <2>2. n \in 0 .. Len(Replies) /\ Replies \in Seq(Reply) /\ sent \in Seq(Reply)
        /\ Len(Replies) \in Nat /\ Len(Replies) =< ReplySize /\ ReplySize \in Nat
    BY DEF Terminal!Lesser, Terminal!TerminalAssumption, RepliesOK
  <2> HIDE DEF n
  <2>3. \A i \in 1 .. Len(Replies) : Replies[i] \in Reply
    BY <2>2, ElementOfSeq
  <2>4. \A lo, hi \in Int : (\A i \in lo .. hi : Replies[i] \in Reply) =>
          /\ SubSeq(Replies, lo, hi) \in Seq(Reply)
          /\ Len(SubSeq(Replies, lo, hi)) = IF lo =< hi THEN hi - lo + 1 ELSE 0
    BY SubSeqProperties
  <2>5. SubSeq(Replies, 1, n) \in Seq(Reply)
    BY <2>2, <2>3, <2>4
  <2>6. /\ SubSeq(Replies, n + 1, Len(Replies)) \in Seq(Reply)
        /\ Len(SubSeq(Replies, n + 1, Len(Replies))) =< ReplySize
    BY <2>2, <2>3, <2>4
  <2>7. sent' \in Seq(Reply)
    BY <2>1, <2>2, <2>5, ConcatProperties DEF n
  <2>8. Replies' \in Seq(Reply) /\ Len(Replies') =< ReplySize
    BY <2>1, <2>6 DEF n, Terminal!Rest
  <2> QED
    BY <1>2, <2>7, <2>8 DEF Terminal!TakeResponse, RepliesOK
<1>3. CASE UNCHANGED Terminal!answers
  BY <1>3 DEF RepliesOK, Terminal!answers
<1> QED
  BY <1>1, <1>2, <1>3 DEF Terminal!Next, Terminal!Lifecycle, Terminal!GetTerminalInfo, Terminal!NoConsole, Terminal!Create, Terminal!Destroy, Terminal!Flush,
     Terminal!SetCursorMode, Terminal!vars

\* A step that leaves the stream and the number of queries alone keeps its order.
LEMMA OrderUntouched ==
    ASSUME Terminal!Stream' = Terminal!Stream, queries' = queries, Terminal!RepliesInOrder, Numbered
    PROVE  Terminal!RepliesInOrder' /\ Numbered'
<1> DEFINE s == Terminal!Stream
           t == Terminal!Stream'
           InOrder(x) == \A p \in DOMAIN x :
                           LET id == x[p][1]
                               k  == x[p][2]
                           IN IF k = 1 THEN p = 1 \/ x[p - 1][1] < id
                                       ELSE p > 1 /\ x[p - 1] = <<id, k - 1>>
<1>1. Terminal!RepliesInOrder = InOrder(s) /\ Terminal!RepliesInOrder' = InOrder(t)
  BY DEF Terminal!RepliesInOrder
<1>2. Numbered = (\A p \in DOMAIN s : s[p][1] =< queries)
      /\ Numbered' = (\A p \in DOMAIN t : t[p][1] =< queries')
  BY DEF Numbered
<1> HIDE DEF s, t
<1>3. t = s
  BY DEF s, t
<1>4. InOrder(t)
  BY <1>1, <1>3
<1> HIDE DEF InOrder
<1> QED
  BY <1>1, <1>2, <1>3, <1>4

\* and their order.
LEMMA OrderStep ==
    ASSUME Terminal!TerminalAssumption, RepliesOK, RepliesOK', FlagsOK, Order, (Terminal!Next \/ UNCHANGED Terminal!vars)
    PROVE  Order'
<1>0. /\ Terminal!Stream \in Seq(Reply) /\ Len(Terminal!Stream) = Len(sent) + Len(Replies)
      /\ DOMAIN Terminal!Stream = 1 .. Len(Terminal!Stream) /\ Len(Terminal!Stream) \in Nat
      /\ Terminal!Stream' \in Seq(Reply) /\ Len(Terminal!Stream') = Len(sent') + Len(Replies')
      /\ DOMAIN Terminal!Stream' = 1 .. Len(Terminal!Stream')
  BY StreamType, StreamTypeNext
<1>1. CASE Terminal!QueueReply
  <2>1. PICK length \in ReplyLengths :
          /\ Replies' = Replies \o Piece(length) /\ asked' = asked + length
          /\ demand' = (IF Replies = << >> THEN 0 ELSE demand) + length
          /\ overflowed' = (overflowed \/ demand' > ReplySize)
    BY <1>1 DEF Terminal!QueueReply, Piece
  <2>2. queries < MaxReplies /\ queries' = queries + 1 /\ sent' = sent
    BY <1>1 DEF Terminal!QueueReply
  <2> DEFINE b == Piece(length)
             f == Terminal!Fitting(length)
             l == Len(Terminal!Stream)
  <2>3. /\ f \in 0 .. length /\ length \in Nat
        /\ Len(Replies) + f =< ReplySize
        /\ (Len(Replies) + length =< ReplySize => f = length)
        /\ b \in Seq(Reply) /\ Len(b) = f
        /\ \A k \in 1 .. f : b[k] = <<queries + 1, k>>
    BY <2>2, PieceType
  <2>4. Terminal!Stream' = Terminal!Stream \o b
    <3>1. \A s1, s2, s3 \in Seq(Reply) : (s1 \o s2) \o s3 = s1 \o (s2 \o s3)
      BY ConcatAssociative
    <3>2. sent \in Seq(Reply) /\ Replies \in Seq(Reply)
      BY DEF RepliesOK
    <3> HIDE DEF b
    <3>3. Replies' = Replies \o b
      BY <2>1 DEF b
    <3> QED
      BY <2>2, <2>3, <3>1, <3>2, <3>3, Zenon DEF Terminal!Stream
  <2> DEFINE s == Terminal!Stream
             t == Terminal!Stream'
  <2> HIDE DEF b, f, l
  <2>5. /\ Len(t) = l + f
        /\ \A p \in 1 .. l : t[p] = s[p]
        /\ \A k \in 1 .. f : t[l + k] = <<queries + 1, k>>
    <3>1. /\ Len(t) = Len(s) + Len(b)
          /\ \A p \in 1 .. Len(s) + Len(b) : t[p] = IF p =< Len(s) THEN s[p] ELSE b[p - Len(s)]
      BY <1>0, <2>3, <2>4, ConcatProperties, Zenon
    <3>2. Len(s) = l /\ Len(b) = f /\ l \in Nat /\ f \in Nat
      BY <1>0, <2>3 DEF l
    <3> HIDE DEF s, t
    <3>3. \A p \in 1 .. l + f : t[p] = IF p =< l THEN s[p] ELSE b[p - l]
      BY <3>1, <3>2
    <3>4. \A k \in 1 .. f : l + k \in 1 .. l + f /\ ~(l + k =< l) /\ (l + k) - l = k
      BY <3>2
    <3>5. \A k \in 1 .. f : t[l + k] = b[k]
      BY <3>3, <3>4
    <3> QED
      BY <2>3, <3>1, <3>2, <3>3, <3>5
  <2>6. l \in Nat /\ f \in Nat /\ queries \in Nat /\ DOMAIN s = 1 .. l /\ DOMAIN t = 1 .. l + f
        /\ \A p \in 1 .. l : s[p] \in Reply
    <3>1. queries \in Nat
      BY DEF RepliesOK, Terminal!TerminalAssumption
    <3>2. l \in Nat /\ DOMAIN s = 1 .. l /\ \A p \in 1 .. l : s[p] \in Reply
      BY <1>0, ElementOfSeq DEF l
    <3>3. f \in Nat
      BY <2>3
    <3>4. DOMAIN t = 1 .. Len(t)
      BY <1>0
    <3> HIDE DEF s, t
    <3> QED
      BY <2>5, <3>1, <3>2, <3>3, <3>4
  <2>7. \A p \in 1 .. l : s[p][1] =< queries
    BY <2>6 DEF Order, Numbered
  <2>8. \A p \in 1 .. l :
          IF s[p][2] = 1 THEN p = 1 \/ s[p - 1][1] < s[p][1]
                         ELSE p > 1 /\ s[p - 1] = <<s[p][1], s[p][2] - 1>>
    BY <2>6 DEF Order, Terminal!RepliesInOrder
  <2> HIDE DEF s, t
  <2>9. ASSUME NEW p \in 1 .. l
        PROVE  /\ t[p][1] =< queries + 1
               /\ IF t[p][2] = 1 THEN p = 1 \/ t[p - 1][1] < t[p][1]
                                 ELSE p > 1 /\ t[p - 1] = <<t[p][1], t[p][2] - 1>>
    <3>1. t[p] = s[p] /\ (p > 1 => t[p - 1] = s[p - 1])
      BY <2>5, <2>6
    <3>2. s[p][1] \in Nat
      BY <2>6 DEF Reply
    <3>3. t[p][1] =< queries + 1
      BY <2>6, <2>7, <3>1, <3>2
    <3>4. p = 1 \/ p > 1
      BY <2>6
    <3> QED
      BY <2>8, <3>1, <3>3, <3>4
  <2>10. ASSUME NEW k \in 1 .. f
         PROVE  /\ t[l + k][1] =< queries + 1
                /\ IF t[l + k][2] = 1 THEN l + k = 1 \/ t[l + k - 1][1] < t[l + k][1]
                   ELSE l + k > 1 /\ t[l + k - 1] = <<t[l + k][1], t[l + k][2] - 1>>
    <3>1. t[l + k] = <<queries + 1, k>> /\ t[l + k][1] = queries + 1 /\ t[l + k][2] = k
      BY <2>5
    <3>2. CASE k = 1
      <4>1. CASE l = 0
        BY <2>6, <3>1, <3>2, <4>1
      <4>2. CASE l > 0
        <5>1. l \in 1 .. l /\ l + k - 1 = l
          BY <2>6, <3>2, <4>2
        <5>2. t[l] = s[l] /\ s[l][1] =< queries /\ s[l][1] \in Nat
          BY <2>5, <2>6, <2>7, <5>1 DEF Reply
        <5> QED
          BY <2>6, <3>1, <3>2, <5>1, <5>2
      <4> QED
        BY <2>6, <4>1, <4>2
    <3>3. CASE k > 1
      <4>1. k - 1 \in 1 .. f /\ l + (k - 1) = l + k - 1 /\ l + k > 1
        BY <2>6, <3>3
      <4>2. t[l + k - 1] = <<queries + 1, k - 1>>
        BY <2>5, <4>1
      <4> QED
        BY <2>6, <3>1, <3>3, <4>1, <4>2
    <3> QED
      BY <3>2, <3>3
  <2>11. \A p \in 1 .. l + f : p \in 1 .. l \/ \E k \in 1 .. f : p = l + k
    <3> TAKE p \in 1 .. l + f
    <3>1. CASE p =< l
      BY <2>6, <3>1
    <3>2. CASE p > l
      <4>1. p - l \in 1 .. f /\ p = l + (p - l)
        BY <2>6, <3>2
      <4> QED
        BY <4>1
    <3> QED
      BY <2>6, <3>1, <3>2
  <2>12. \A p \in DOMAIN t :
           /\ t[p][1] =< queries + 1
           /\ IF t[p][2] = 1 THEN p = 1 \/ t[p - 1][1] < t[p][1]
                             ELSE p > 1 /\ t[p - 1] = <<t[p][1], t[p][2] - 1>>
    <3> SUFFICES ASSUME NEW p \in 1 .. l + f
                 PROVE  /\ t[p][1] =< queries + 1
                        /\ IF t[p][2] = 1 THEN p = 1 \/ t[p - 1][1] < t[p][1]
                           ELSE p > 1 /\ t[p - 1] = <<t[p][1], t[p][2] - 1>>
      BY <2>6
    <3>1. CASE p \in 1 .. l
      BY <2>9, <3>1, Zenon
    <3>2. CASE \E k \in 1 .. f : p = l + k
      <4>1. PICK k \in 1 .. f : p = l + k
        BY <3>2
      <4>2. p - 1 = l + k - 1 /\ l + k = p
        BY <2>6, <4>1
      <4>3. /\ t[l + k][1] =< queries + 1
            /\ IF t[l + k][2] = 1 THEN l + k = 1 \/ t[l + k - 1][1] < t[l + k][1]
               ELSE l + k > 1 /\ t[l + k - 1] = <<t[l + k][1], t[l + k][2] - 1>>
        BY <2>10
      <4> QED
        BY <4>2, <4>3
    <3> QED
      BY <2>11, <3>1, <3>2
  <2>13. Terminal!RepliesInOrder' /\ Numbered'
    BY <2>2, <2>12 DEF t, Terminal!RepliesInOrder, Numbered
  <2>14. Counted'
    <3> SUFFICES ASSUME ~overflowed'
                 PROVE  Len(Terminal!Stream') = asked' /\ (Replies' # << >> => Len(Replies') =< demand')
      BY DEF Counted
    <3>1. ~overflowed /\ ~(demand' > ReplySize)
      BY <2>1, Zenon
    <3>2. Len(Terminal!Stream) = asked /\ (Replies # << >> => Len(Replies) =< demand)
      BY <3>1, Zenon DEF Order, Counted
    <3>3. demand \in Nat /\ asked \in Nat /\ ReplySize \in Nat /\ Len(Replies) \in Nat
          /\ (Replies = << >> => Len(Replies) = 0)
      BY DEF RepliesOK, Terminal!TerminalAssumption
    <3>4. demand' \in Nat /\ Len(Replies) + length =< demand' /\ demand' =< ReplySize
      BY <2>1, <2>3, <3>1, <3>2, <3>3
    <3>5. f = length
      BY <2>3, <3>3, <3>4
    <3>6. Len(t) = Len(sent) + Len(Replies') /\ Len(t) = l + f
      BY <1>0, <2>2, <2>5 DEF t
    <3>7. Len(sent) \in Nat /\ Len(Replies') \in Nat /\ l = Len(sent) + Len(Replies)
      BY <1>0 DEF l, RepliesOK
    <3>8. Len(Replies') = Len(Replies) + f
      BY <2>3, <3>3, <3>6, <3>7
    <3>9. Len(t) = asked'
      BY <2>1, <3>2, <3>3, <3>5, <3>6 DEF l
    <3> QED
      BY <3>4, <3>5, <3>8, <3>9 DEF t
  <2> QED
    BY <2>13, <2>14 DEF Order
<1>2. CASE Terminal!TakeResponse
  <2>1. PICK room \in Capacities :
          /\ sent' = sent \o SubSeq(Replies, 1, Terminal!Lesser(room, Len(Replies)))
          /\ Replies' = Terminal!Rest(Terminal!Lesser(room, Len(Replies)))
    BY <1>2 DEF Terminal!TakeResponse
  <2>2. UNCHANGED <<asked, demand, overflowed, queries>>
    BY <1>2 DEF Terminal!TakeResponse
  <2>3. Terminal!Lesser(room, Len(Replies)) \in 0 .. Len(Replies)
    BY DEF Terminal!Lesser, Terminal!TerminalAssumption, RepliesOK
  <2>4. Terminal!Stream' = Terminal!Stream
    BY <2>1, <2>3, TakeKeepsStream
  <2>5. Len(Replies') =< Len(Replies) /\ (Replies' # << >> => Replies # << >>)
    <3>1. Len(Replies') =< Len(Replies)
      <4>1. Len(Terminal!Stream') = Len(Terminal!Stream)
        BY <2>4
      <4>2. Len(sent') >= Len(sent)
        <5>1. sent \in Seq(Reply) /\ Replies \in Seq(Reply) /\ Len(sent) \in Nat
          BY DEF RepliesOK
        <5>2. SubSeq(Replies, 1, Terminal!Lesser(room, Len(Replies))) \in Seq(Reply)
          <6>1. \A i \in 1 .. Terminal!Lesser(room, Len(Replies)) : Replies[i] \in Reply
            BY <2>3, <5>1, ElementOfSeq
          <6>2. \A hi \in Int : (\A i \in 1 .. hi : Replies[i] \in Reply) =>
                                  SubSeq(Replies, 1, hi) \in Seq(Reply)
            BY SubSeqProperties
          <6> QED
            BY <2>3, <6>1, <6>2
        <5> QED
          BY <2>1, <5>1, <5>2, ConcatProperties
      <4> QED
        BY <1>0, <4>1, <4>2 DEF RepliesOK
    <3>2. Replies' \in Seq(Reply) /\ Replies \in Seq(Reply)
      BY DEF RepliesOK
    <3> QED
      BY <3>1, <3>2
  <2>6. Counted'
    <3>1. demand \in Nat /\ Len(Replies) \in Nat /\ Len(Replies') \in Nat
      BY DEF RepliesOK
    <3>2. ~overflowed' => ~overflowed
      BY <2>2, Zenon
    <3> QED
      BY <2>2, <2>4, <2>5, <3>1, <3>2 DEF Order, Counted
  <2> QED
    BY <2>2, <2>4, <2>6, OrderUntouched DEF Order
<1>3. CASE UNCHANGED Terminal!answers
  <2>1. Terminal!Stream' = Terminal!Stream /\ UNCHANGED <<Replies, asked, demand, overflowed, queries>>
    BY <1>3 DEF Terminal!Stream, Terminal!answers
  <2>2. Counted'
    BY <2>1, Zenon DEF Order, Counted
  <2> QED
    BY <2>1, <2>2, OrderUntouched DEF Order
<1> QED
  BY <1>1, <1>2, <1>3 DEF Terminal!Next, Terminal!Lifecycle, Terminal!GetTerminalInfo, Terminal!NoConsole, Terminal!Create, Terminal!Destroy, Terminal!Flush,
     Terminal!SetCursorMode, Terminal!vars

-----------------------------------------------------------------------------
(***************************************************************************)
(* Theorems.                                                               *)
(***************************************************************************)
TerminalInv == FlagsOK /\ LifeOK /\ RepliesOK /\ Console /\ Terminal!ConsoleRestored /\ Terminal!MemoryComplete
          /\ Told /\ Order

\* No terminal has been created.
LEMMA TerminalInvInit ==
    ASSUME Terminal!TerminalAssumption, Terminal!Init
    PROVE  TerminalInv
<1>1. FlagsOK
  BY Zenon DEF Terminal!Init, FlagsOK
<1>2. /\ phase = "start" /\ mode \in Sizes \cup {Terminal!Absent} /\ pty = Terminal!Unknown /\ size = Terminal!Unknown
      /\ pools = {} /\ DefaultForeground = 0 /\ DefaultBackground = 0
      /\ attribute \in ConsoleAttributes /\ found = attribute /\ cursorOn
      /\ Replies = << >> /\ sent = << >> /\ asked = 0 /\ demand = 0 /\ queries = 0
  BY Zenon DEF Terminal!Init
<1>3. LifeOK
  BY <1>2 DEF LifeOK, Terminal!TerminalAssumption
<1>4. RepliesOK
  BY <1>2 DEF RepliesOK, Terminal!TerminalAssumption
<1>5. Console /\ Terminal!ConsoleRestored /\ Terminal!MemoryComplete /\ Told
  BY <1>2, Zenon DEF Console, Terminal!ConsoleRestored, Terminal!MemoryComplete, Told
<1>6. Terminal!Stream = << >>
  BY <1>2 DEF Terminal!Stream
<1>7. Order
  BY <1>2, <1>6 DEF Order, Terminal!RepliesInOrder, Numbered, Counted
<1> QED
  BY <1>1, <1>3, <1>4, <1>5, <1>7 DEF TerminalInv

\* A step keeps the invariant.
LEMMA TerminalInvStep ==
    ASSUME Terminal!TerminalAssumption, TerminalInv, Terminal!Next \/ UNCHANGED Terminal!vars
    PROVE  TerminalInv'
BY FlagsStep, LifeOKStep, RepliesOKStep, ConsoleStep, ToldStep, OrderStep DEF TerminalInv

\* What the runs check of the terminal's life and of its replies.
LEMMA TerminalShows ==
    ASSUME Terminal!TerminalAssumption, TerminalInv
    PROVE  /\ Terminal!TypeOK /\ Terminal!RepliesInOrder /\ Terminal!RepliesWhole
           /\ Terminal!SizesAgree /\ Terminal!MemoryComplete /\ Terminal!ConsoleRestored
<1>1. Terminal!TypeOK
  BY TypeParts DEF TerminalInv
<1>2. Terminal!RepliesInOrder
  BY DEF TerminalInv, Order
<1>3. Terminal!RepliesWhole
  BY DEF TerminalInv, Order, Counted, Terminal!RepliesWhole
<1>4. Terminal!SizesAgree
  BY ToldAgrees DEF TerminalInv
<1>5. Terminal!MemoryComplete /\ Terminal!ConsoleRestored
  BY DEF TerminalInv
<1> QED
  BY <1>1, <1>2, <1>3, <1>4, <1>5

-----------------------------------------------------------------------------
(***************************************************************************)
(* The loops behind the screen (ScrollUp, ScrollDown, InsertCharacters,    *)
(* DeleteCharacters, WolfSshTerminalFlush).                                *)
(***************************************************************************)
\* The parameters of the call, as its callers give them.
Called ==
    /\ loop \in {"up", "down", "insert", "flush"}
    /\ Top \in Loops!Places /\ Bottom \in Top .. Length - 1
    /\ loop = "insert" => Bottom = Length - 1
    /\ Count \in 1 .. Bottom - Top + 1
    /\ loop \in {"insert", "flush"} => Count = 1

\* The places that are as the move is to leave them.
Settled(p) ==
    \/ step = "done"
    \/ loop = "up" /\ p < Position
    \/ loop = "insert" /\ p > Position
    \/ loop = "down" /\ step = "move" /\ p >= Position
    \/ loop = "down" /\ step = "fill" /\ (p < Position \/ p >= Top + Count)

Moving ==
    /\ step \in {"move", "fill", "done"}
    /\ step = "move" /\ loop = "up"     => Position \in Top .. Bottom - Count + 1
    /\ step = "move" /\ loop = "down"   => Position \in Top + Count .. Bottom + 1
    /\ step = "move" /\ loop = "insert" => Position \in Top .. Bottom
    /\ step = "fill" /\ loop = "up"     => Position \in Bottom - Count + 1 .. Bottom + 1
    /\ step = "fill" /\ loop = "down"   => Position \in Top .. Top + Count
    /\ step = "fill" => loop \in {"up", "down"}
    /\ \A p \in Loops!Places : array[p] = IF Settled(p) THEN Loops!Moved(p) ELSE p

Flushing ==
    /\ step \in {"run", "write", "done"}
    /\ Position \in Top .. Bottom + 1
    /\ RunEnd \in Position .. Bottom \/ RunEnd = Position
    /\ step = "write" => RunEnd =< Bottom
    /\ step = "done" => Position = Bottom + 1
    /\ \A p \in Loops!Places : array[p] = p
    /\ \A q \in Position .. RunEnd : q =< Bottom => attribute[q] = attribute[Position]
    /\ \A p \in Loops!Places :
         console[p] = IF p \in Top .. Position - 1 THEN <<p, attribute[p]>> ELSE Loops!Old

LoopsInv ==
    /\ Called /\ Loops!TypeOK
    /\ loop = "flush" => Flushing
    /\ loop # "flush" => Moving

-----------------------------------------------------------------------------
\* The range and the count of a call lie inside the array.
LEMMA Ranges ==
    ASSUME Loops!ScreenLoopsAssumption, Called
    PROVE  /\ Length \in Nat /\ Top \in Nat /\ Bottom \in Nat /\ Count \in Nat
           /\ Top =< Bottom /\ Bottom =< Length - 1 /\ Count >= 1 /\ Top + Count =< Bottom + 1
           /\ Loops!Places = 0 .. Length - 1 /\ Loops!Blank = -1
BY DEF Loops!ScreenLoopsAssumption, Called, Loops!Places, Loops!Blank

\* A copy, or a blank, in one place.
LEMMA Writes ==
    ASSUME Loops!ScreenLoopsAssumption, Loops!TypeOK, NEW to \in Loops!Places, NEW x \in Loops!Places \cup {Loops!Blank},
           array' = [array EXCEPT ![to] = x]
    PROVE  /\ array' \in [Loops!Places -> Loops!Places \cup {Loops!Blank}]
           /\ \A p \in Loops!Places : array'[p] = IF p = to THEN x ELSE array[p]
BY DEF Loops!TypeOK

\* What Screen says of a moved cell is a cell or a blank.
LEMMA MovedType ==
    ASSUME Loops!ScreenLoopsAssumption, Called, NEW p \in Loops!Places
    PROVE  Loops!Moved(p) \in Loops!Places \cup {Loops!Blank}
BY Ranges DEF Loops!Moved

-----------------------------------------------------------------------------
\* A turn of the loop of ScrollUp or DeleteCharacters.
LEMMA UpStep ==
    ASSUME Loops!ScreenLoopsAssumption, LoopsInv, Loops!MoveUp
    PROVE  LoopsInv'
<1>0. /\ Called /\ Loops!TypeOK /\ Moving /\ loop = "up" /\ step = "move"
      /\ UNCHANGED <<loop, Top, Bottom, Count, RunEnd, overrun>>
  BY DEF LoopsInv, Loops!MoveUp, Loops!call, Loops!show
<1>1. /\ Length \in Nat /\ Top \in Nat /\ Bottom \in Nat /\ Count \in Nat
      /\ Top =< Bottom /\ Bottom =< Length - 1 /\ Count >= 1 /\ Top + Count =< Bottom + 1
      /\ Loops!Places = 0 .. Length - 1 /\ Loops!Blank = -1
  BY <1>0, Ranges
<1>2. /\ Position \in Top .. Bottom - Count + 1
      /\ \A p \in Loops!Places : array[p] = IF p < Position THEN Loops!Moved(p) ELSE p
  BY <1>0 DEF Moving, Settled
<1>3. Called'
  BY <1>0 DEF Called
<1>4. \A p \in Loops!Places : Loops!Moved(p)' = Loops!Moved(p)
  BY <1>0 DEF Loops!Moved
<1>5. CASE Loops!MoreToMoveUp
  <2>1. Loops!Copy(Position, Position + Count) /\ Position' = Position + 1 /\ step' = "move"
    BY <1>5, <1>0 DEF Loops!MoveUp, Loops!Goes
  <2>2. /\ Position \in Loops!Places /\ Position + Count \in Loops!Places /\ Position + Count =< Bottom
    BY <1>1, <1>2, <1>5 DEF Loops!MoreToMoveUp
  <2>3. array[Position + Count] = Position + Count
    BY <1>1, <1>2, <2>2
  <2>4. Loops!Moved(Position) = Position + Count
    BY <1>0, <1>1, <1>2, <2>2 DEF Loops!Moved
  <2>5. /\ array' \in [Loops!Places -> Loops!Places \cup {Loops!Blank}]
        /\ \A p \in Loops!Places : array'[p] = IF p = Position THEN Position + Count ELSE array[p]
    BY <1>0, <2>1, <2>2, <2>3, Writes DEF Loops!Copy
  <2>6. \A p \in Loops!Places : array'[p] = IF p < Position + 1 THEN Loops!Moved(p) ELSE p
    BY <1>1, <1>2, <2>2, <2>4, <2>5
  <2>7. Moving'
    BY <1>0, <1>1, <1>2, <1>4, <2>1, <2>2, <2>6 DEF Moving, Settled
  <2>8. Loops!TypeOK'
    BY <1>0, <1>1, <1>2, <2>1, <2>2, <2>5 DEF Loops!TypeOK
  <2> QED
    BY <1>0, <1>3, <2>7, <2>8 DEF LoopsInv
<1>6. CASE ~Loops!MoreToMoveUp
  <2>1. array' = array /\ Position' = Position /\ step' = "fill"
    BY <1>6, <1>0 DEF Loops!MoveUp, Loops!Goes
  <2>2. Position = Bottom - Count + 1
    BY <1>1, <1>2, <1>6 DEF Loops!MoreToMoveUp
  <2>3. Moving'
    BY <1>0, <1>1, <1>2, <1>4, <2>1, <2>2 DEF Moving, Settled
  <2>4. Loops!TypeOK'
    BY <1>0, <2>1 DEF Loops!TypeOK
  <2> QED
    BY <1>0, <1>3, <2>3, <2>4 DEF LoopsInv
<1> QED
  BY <1>5, <1>6

\* A turn of the loop of ScrollDown.
LEMMA DownStep ==
    ASSUME Loops!ScreenLoopsAssumption, LoopsInv, Loops!MoveDown
    PROVE  LoopsInv'
<1>0. /\ Called /\ Loops!TypeOK /\ Moving /\ loop = "down" /\ step = "move"
      /\ UNCHANGED <<loop, Top, Bottom, Count, RunEnd, overrun>>
  BY DEF LoopsInv, Loops!MoveDown, Loops!call, Loops!show
<1>1. /\ Length \in Nat /\ Top \in Nat /\ Bottom \in Nat /\ Count \in Nat
      /\ Top =< Bottom /\ Bottom =< Length - 1 /\ Count >= 1 /\ Top + Count =< Bottom + 1
      /\ Loops!Places = 0 .. Length - 1 /\ Loops!Blank = -1
  BY <1>0, Ranges
<1>2. /\ Position \in Top + Count .. Bottom + 1
      /\ \A p \in Loops!Places : array[p] = IF p >= Position THEN Loops!Moved(p) ELSE p
  BY <1>0 DEF Moving, Settled
<1>3. Called'
  BY <1>0 DEF Called
<1>4. \A p \in Loops!Places : Loops!Moved(p)' = Loops!Moved(p)
  BY <1>0 DEF Loops!Moved
<1>5. CASE Position > Top + Count
  <2>1. Loops!Copy(Position - 1, Position - 1 - Count) /\ Position' = Position - 1 /\ step' = "move"
    BY <1>5, <1>0 DEF Loops!MoveDown, Loops!Goes, Loops!Downwards
  <2>2. /\ Position - 1 \in Loops!Places /\ Position - 1 - Count \in Loops!Places
        /\ Position - 1 - Count >= Top /\ Position - 1 =< Bottom
    BY <1>1, <1>2, <1>5
  <2>3. array[Position - 1 - Count] = Position - 1 - Count
    BY <1>1, <1>2, <2>2
  <2>4. Loops!Moved(Position - 1) = Position - 1 - Count
    BY <1>0, <1>1, <1>2, <2>2 DEF Loops!Moved
  <2>5. /\ array' \in [Loops!Places -> Loops!Places \cup {Loops!Blank}]
        /\ \A p \in Loops!Places : array'[p] = IF p = Position - 1 THEN Position - 1 - Count ELSE array[p]
    BY <1>0, <2>1, <2>2, <2>3, Writes DEF Loops!Copy
  <2>6. \A p \in Loops!Places : array'[p] = IF p >= Position - 1 THEN Loops!Moved(p) ELSE p
    BY <1>1, <1>2, <2>2, <2>4, <2>5
  <2>7. Moving'
    BY <1>0, <1>1, <1>2, <1>4, <1>5, <2>1, <2>2, <2>6 DEF Moving, Settled
  <2>8. Loops!TypeOK'
    BY <1>0, <1>1, <1>2, <2>1, <2>2, <2>5 DEF Loops!TypeOK
  <2> QED
    BY <1>0, <1>3, <2>7, <2>8 DEF LoopsInv
<1>6. CASE ~(Position > Top + Count)
  <2>1. array' = array /\ Position' = Top /\ step' = "fill"
    BY <1>6, <1>0 DEF Loops!MoveDown, Loops!Goes
  <2>2. Position = Top + Count
    BY <1>1, <1>2, <1>6
  <2>3. \A p \in Loops!Places : array'[p] = IF p < Top \/ p >= Top + Count THEN Loops!Moved(p) ELSE p
    <3>1. \A p \in Loops!Places : p < Top => Loops!Moved(p) = p
      BY <1>0, <1>1 DEF Loops!Moved
    <3> QED
      BY <1>1, <1>2, <2>1, <2>2, <3>1
  <2>4. Moving'
    BY <1>0, <1>1, <1>4, <2>1, <2>3 DEF Moving, Settled
  <2>5. Loops!TypeOK'
    BY <1>0, <1>1, <2>1 DEF Loops!TypeOK
  <2> QED
    BY <1>0, <1>3, <2>4, <2>5 DEF LoopsInv
<1> QED
  BY <1>5, <1>6

\* A turn of the loop of InsertCharacters.
LEMMA InsertStep ==
    ASSUME Loops!ScreenLoopsAssumption, LoopsInv, Loops!MoveForInsert
    PROVE  LoopsInv'
<1>0. /\ Called /\ Loops!TypeOK /\ Moving /\ loop = "insert" /\ step = "move"
      /\ UNCHANGED <<loop, Top, Bottom, Count, RunEnd, overrun>>
  BY DEF LoopsInv, Loops!MoveForInsert, Loops!call, Loops!show
<1>1. /\ Length \in Nat /\ Top \in Nat /\ Bottom \in Nat /\ Count = 1
      /\ Top =< Bottom /\ Bottom = Length - 1
      /\ Loops!Places = 0 .. Length - 1 /\ Loops!Blank = -1
  BY <1>0, Ranges DEF Called
<1>2. /\ Position \in Top .. Bottom
      /\ \A p \in Loops!Places : array[p] = IF p > Position THEN Loops!Moved(p) ELSE p
  BY <1>0 DEF Moving, Settled
<1>3. Called'
  BY <1>0 DEF Called
<1>4. \A p \in Loops!Places : Loops!Moved(p)' = Loops!Moved(p)
  BY <1>0 DEF Loops!Moved
<1>5. CASE Position > Top
  <2>1. Loops!Copy(Position, Position - 1) /\ Position' = Position - 1 /\ step' = "move"
    BY <1>5, <1>0 DEF Loops!MoveForInsert, Loops!Goes
  <2>2. Position \in Loops!Places /\ Position - 1 \in Loops!Places /\ Position - 1 >= Top
    BY <1>1, <1>2, <1>5
  <2>3. array[Position - 1] = Position - 1
    BY <1>1, <1>2, <2>2
  <2>4. Loops!Moved(Position) = Position - 1
    BY <1>0, <1>1, <1>2, <2>2 DEF Loops!Moved
  <2>5. /\ array' \in [Loops!Places -> Loops!Places \cup {Loops!Blank}]
        /\ \A p \in Loops!Places : array'[p] = IF p = Position THEN Position - 1 ELSE array[p]
    BY <1>0, <2>1, <2>2, <2>3, Writes DEF Loops!Copy
  <2>6. \A p \in Loops!Places : array'[p] = IF p > Position - 1 THEN Loops!Moved(p) ELSE p
    BY <1>1, <1>2, <2>2, <2>4, <2>5
  <2>7. Moving'
    BY <1>0, <1>1, <1>2, <1>4, <1>5, <2>1, <2>2, <2>6 DEF Moving, Settled
  <2>8. Loops!TypeOK'
    BY <1>0, <1>1, <1>2, <2>1, <2>2, <2>5 DEF Loops!TypeOK
  <2> QED
    BY <1>0, <1>3, <2>7, <2>8 DEF LoopsInv
<1>6. CASE ~(Position > Top)
  <2>1. array' = [array EXCEPT ![Top] = Loops!Blank] /\ Position' = Position /\ step' = "done"
    BY <1>6, <1>0 DEF Loops!MoveForInsert, Loops!Goes
  <2>2. Position = Top /\ Top \in Loops!Places
    BY <1>1, <1>2, <1>6
  <2>3. /\ array' \in [Loops!Places -> Loops!Places \cup {Loops!Blank}]
        /\ \A p \in Loops!Places : array'[p] = IF p = Top THEN Loops!Blank ELSE array[p]
    BY <1>0, <2>1, <2>2, Writes
  <2>4. \A p \in Loops!Places : array'[p] = Loops!Moved(p)
    <3>1. Loops!Moved(Top) = Loops!Blank /\ \A p \in Loops!Places : p < Top => Loops!Moved(p) = p
      BY <1>0, <1>1 DEF Loops!Moved
    <3> QED
      BY <1>1, <1>2, <2>2, <2>3, <3>1
  <2>5. Moving'
    BY <1>0, <1>4, <2>1, <2>4 DEF Moving, Settled
  <2>6. Loops!TypeOK'
    BY <1>0, <2>1, <2>3 DEF Loops!TypeOK
  <2> QED
    BY <1>0, <1>3, <2>5, <2>6 DEF LoopsInv
<1> QED
  BY <1>5, <1>6

\* A turn of the loop that blanks what was left.
LEMMA FillStep ==
    ASSUME Loops!ScreenLoopsAssumption, LoopsInv, Loops!Fill
    PROVE  LoopsInv'
<1>0. /\ Called /\ Loops!TypeOK /\ Moving /\ loop \in {"up", "down"} /\ step = "fill"
      /\ UNCHANGED <<loop, Top, Bottom, Count, RunEnd, overrun>>
  <2>1. step = "fill" /\ UNCHANGED <<loop, Top, Bottom, Count, RunEnd, overrun>>
    BY DEF Loops!Fill, Loops!call, Loops!show
  <2>2. loop # "flush"
    BY <2>1 DEF LoopsInv, Flushing
  <2> QED
    BY <2>1, <2>2 DEF LoopsInv, Moving
<1>1. /\ Length \in Nat /\ Top \in Nat /\ Bottom \in Nat /\ Count \in Nat
      /\ Top =< Bottom /\ Bottom =< Length - 1 /\ Count >= 1 /\ Top + Count =< Bottom + 1
      /\ Loops!Places = 0 .. Length - 1 /\ Loops!Blank = -1
  BY <1>0, Ranges
<1>2. /\ loop = "up" => Position \in Bottom - Count + 1 .. Bottom + 1 /\ Loops!FillEnd = Bottom
      /\ loop = "down" => Position \in Top .. Top + Count /\ Loops!FillEnd = Top + Count - 1
  BY <1>0 DEF Moving, Loops!FillEnd
<1>3. \A p \in Loops!Places :
        array[p] = IF p < Position \/ (loop = "down" /\ p >= Top + Count) THEN Loops!Moved(p) ELSE p
  BY <1>0 DEF Moving, Settled
<1>4. Called' /\ \A p \in Loops!Places : Loops!Moved(p)' = Loops!Moved(p)
  BY <1>0 DEF Called, Loops!Moved
<1>5. CASE Position =< Loops!FillEnd
  <2>1. /\ array' = [array EXCEPT ![Position] = Loops!Blank] /\ Position' = Position + 1
        /\ step' = "fill"
    BY <1>5 DEF Loops!Fill, Loops!Goes
  <2>2. Position \in Loops!Places /\ Loops!Moved(Position) = Loops!Blank
    BY <1>0, <1>1, <1>2, <1>5 DEF Loops!Moved
  <2>3. /\ array' \in [Loops!Places -> Loops!Places \cup {Loops!Blank}]
        /\ \A p \in Loops!Places : array'[p] = IF p = Position THEN Loops!Blank ELSE array[p]
    BY <1>0, <2>1, <2>2, Writes
  <2>4. \A p \in Loops!Places :
          array'[p] = IF p < Position + 1 \/ (loop = "down" /\ p >= Top + Count)
                      THEN Loops!Moved(p) ELSE p
    BY <1>0, <1>1, <1>2, <1>3, <2>2, <2>3
  <2>5. Moving'
    BY <1>0, <1>1, <1>2, <1>4, <1>5, <2>1, <2>4 DEF Moving, Settled
  <2>6. Loops!TypeOK'
    BY <1>0, <1>1, <2>1, <2>2, <2>3 DEF Loops!TypeOK
  <2> QED
    BY <1>0, <1>4, <2>5, <2>6 DEF LoopsInv
<1>6. CASE ~(Position =< Loops!FillEnd)
  <2>1. array' = array /\ Position' = Position /\ step' = "done"
    BY <1>6 DEF Loops!Fill, Loops!Goes
  <2>2. \A p \in Loops!Places : array'[p] = Loops!Moved(p)
    <3>1. \A p \in Loops!Places : loop = "up" /\ p > Bottom => Loops!Moved(p) = p
      BY <1>0, <1>1 DEF Loops!Moved
    <3> QED
      BY <1>0, <1>1, <1>2, <1>3, <1>6, <2>1, <3>1
  <2>3. Moving'
    BY <1>0, <1>4, <2>1, <2>2 DEF Moving, Settled
  <2>4. Loops!TypeOK'
    BY <1>0, <2>1 DEF Loops!TypeOK
  <2> QED
    BY <1>0, <1>4, <2>3, <2>4 DEF LoopsInv
<1> QED
  BY <1>5, <1>6

-----------------------------------------------------------------------------
\* A flush finds the end of a run of one attribute,
LEMMA FindRunStep ==
    ASSUME Loops!ScreenLoopsAssumption, LoopsInv, Loops!FindRun
    PROVE  LoopsInv'
<1>0. /\ Called /\ Loops!TypeOK /\ Flushing /\ loop = "flush" /\ step = "run"
      /\ UNCHANGED <<loop, Top, Bottom, Count, attribute, Position, array, console>>
  BY DEF LoopsInv, Loops!FindRun, Loops!call
<1>o. overrun' = overrun
  BY Zenon DEF Loops!FindRun
<1>1. /\ Length \in Nat /\ Top \in Nat /\ Bottom \in Nat
      /\ Top =< Bottom /\ Bottom =< Length - 1 /\ Loops!Places = 0 .. Length - 1
  BY <1>0, Ranges
<1>2. Position \in Int /\ RunEnd \in Int /\ Top =< Position /\ Position =< Bottom + 1
      /\ (RunEnd = Position \/ (Position =< RunEnd /\ RunEnd =< Bottom))
  BY <1>0, <1>1 DEF Flushing
<1>3. Called'
  BY <1>0 DEF Called
<1>4. /\ step' \in {"run", "write", "done"}
      /\ RunEnd' \in Position .. Bottom \/ RunEnd' = Position
      /\ step' = "write" => RunEnd' =< Bottom
      /\ step' = "done" => Position = Bottom + 1
      /\ RunEnd' = RunEnd \/ (RunEnd' = RunEnd + 1 /\ attribute[RunEnd'] = attribute[Position])
  <2>1. CASE Position > Bottom
    BY <1>0, <1>1, <1>2, <2>1 DEF Loops!FindRun
  <2>2. CASE Position =< Bottom /\ Loops!RunGoesOn
    BY <1>0, <1>1, <1>2, <2>2 DEF Loops!FindRun, Loops!RunGoesOn
  <2>3. CASE Position =< Bottom /\ ~Loops!RunGoesOn
    BY <1>0, <1>1, <1>2, <2>3 DEF Loops!FindRun
  <2> QED
    BY <1>1, <1>2, <2>1, <2>2, <2>3
<1>5. \A q \in Position .. RunEnd' : q =< Bottom => attribute[q] = attribute[Position]
  <2>1. \A q \in Position .. RunEnd : q =< Bottom => attribute[q] = attribute[Position]
    BY <1>0 DEF Flushing
  <2> QED
    BY <1>1, <1>2, <1>4, <2>1
<1>6. Flushing'
  BY <1>0, <1>4, <1>5 DEF Flushing, Loops!Places
<1>7. Loops!TypeOK'
  <2>1. ~overrun'
    BY <1>0, <1>o, Zenon DEF Loops!TypeOK
  <2> QED
    BY <1>0, <1>1, <1>2, <1>4, <2>1 DEF Loops!TypeOK, Loops!Places, Loops!Blank
<1> QED
  BY <1>0, <1>3, <1>6, <1>7 DEF LoopsInv

\* and writes it.
LEMMA WriteRunStep ==
    ASSUME Loops!ScreenLoopsAssumption, LoopsInv, Loops!WriteRun
    PROVE  LoopsInv'
<1>0. /\ Called /\ Loops!TypeOK /\ Flushing /\ loop = "flush" /\ step = "write"
      /\ UNCHANGED <<loop, Top, Bottom, Count, attribute, array>>
      /\ Position' = RunEnd + 1 /\ RunEnd' = RunEnd + 1 /\ step' = "run"
  BY DEF LoopsInv, Loops!WriteRun, Loops!call, Loops!NextRun
<1>1. /\ Length \in Nat /\ Top \in Nat /\ Bottom \in Nat
      /\ Top =< Bottom /\ Bottom =< Length - 1 /\ Loops!Places = 0 .. Length - 1
  BY <1>0, Ranges
<1>2. Position \in Int /\ RunEnd \in Int /\ Top =< Position /\ Position =< RunEnd
      /\ RunEnd =< Bottom
  BY <1>0, <1>1 DEF Flushing
<1>3. Called'
  BY <1>0 DEF Called
<1>4. /\ RenderBuffer' \in Seq(Int) /\ Len(RenderBuffer') = RunEnd - Position + 1
      /\ \A k \in 1 .. RunEnd - Position + 1 : RenderBuffer'[k] = Position + k - 1
  <2>1. RenderBuffer' = [k \in 1 .. RunEnd - Position + 1 |-> array[Position + k - 1]]
    BY DEF Loops!WriteRun
  <2>2. \A k \in 1 .. RunEnd - Position + 1 : array[Position + k - 1] = Position + k - 1
    BY <1>0, <1>1, <1>2 DEF Flushing
  <2>3. PICK n \in Nat : n = RunEnd - Position + 1
    BY <1>1, <1>2
  <2>4. RenderBuffer' = [k \in 1 .. n |-> Position + k - 1]
    BY <2>1, <2>2, <2>3
  <2>5. RenderBuffer' \in Seq(Int) /\ Len(RenderBuffer') = n
    BY <1>2, <2>4
  <2> QED
    BY <2>3, <2>4, <2>5
<1>5. ~overrun'
  <2>1. ~(Len(RenderBuffer') + 1 > Loops!BufferSize)
    BY <1>1, <1>2, <1>4 DEF Loops!BufferSize
  <2>2. overrun' = (overrun \/ Len(RenderBuffer') + 1 > Loops!BufferSize)
    BY Zenon DEF Loops!WriteRun
  <2>3. ~overrun
    BY <1>0 DEF Loops!TypeOK
  <2> QED
    BY <2>1, <2>2, <2>3, Zenon
<1>6. \A p \in Loops!Places :
        console'[p] = IF p \in Top .. RunEnd THEN <<p, attribute[p]>> ELSE Loops!Old
  <2> SUFFICES ASSUME NEW p \in Loops!Places
               PROVE  console'[p] = IF p \in Top .. RunEnd THEN <<p, attribute[p]>> ELSE Loops!Old
    OBVIOUS
  <2>1. console'[p] = IF p \in Position .. RunEnd
                      THEN <<RenderBuffer'[p - Position + 1], attribute[Position]>>
                      ELSE console[p]
    BY DEF Loops!WriteRun
  <2>2. console[p] = IF p \in Top .. Position - 1 THEN <<p, attribute[p]>> ELSE Loops!Old
    BY <1>0 DEF Flushing
  <2>3. ASSUME p \in Position .. RunEnd
        PROVE  RenderBuffer'[p - Position + 1] = p /\ attribute[Position] = attribute[p]
    <3>1. p - Position + 1 \in 1 .. RunEnd - Position + 1 /\ p =< Bottom
      BY <1>1, <1>2, <2>3
    <3>2. Position + (p - Position + 1) - 1 = p
      BY <1>1, <1>2
    <3> QED
      BY <1>0, <1>4, <2>3, <3>1, <3>2 DEF Flushing
  <2>4. p \in Top .. RunEnd <=> (p \in Position .. RunEnd \/ p \in Top .. Position - 1)
    BY <1>1, <1>2
  <2> QED
    BY <2>1, <2>2, <2>3, <2>4
<1>7. Flushing'
  <2>1. Top .. Position' - 1 = Top .. RunEnd
    BY <1>0, <1>1, <1>2
  <2>2. \A p \in Loops!Places :
          console'[p] = IF p \in Top .. Position' - 1 THEN <<p, attribute[p]>> ELSE Loops!Old
    BY <1>6, <2>1
  <2>3. \A q \in Position' .. RunEnd' : q = Position'
    BY <1>0, <1>2
  <2>4. Position' \in Top .. Bottom + 1
    BY <1>0, <1>1, <1>2
  <2> QED
    BY <1>0, <2>2, <2>3, <2>4 DEF Flushing, Loops!Places, Loops!Old
<1>8. Loops!TypeOK'
  BY <1>0, <1>1, <1>2, <1>5 DEF Loops!TypeOK, Loops!Places, Loops!Blank
<1> QED
  BY <1>0, <1>3, <1>7, <1>8 DEF LoopsInv

-----------------------------------------------------------------------------
\* A call begins with its array untouched.
LEMMA LoopsInit ==
    ASSUME Loops!ScreenLoopsAssumption, Loops!Init
    PROVE  LoopsInv
<1>1. Called
  BY DEF Loops!Init, Called, Loops!ScreenLoopsAssumption, Loops!Places
<1>2. /\ Length \in Nat /\ Top \in Nat /\ Bottom \in Nat /\ Count \in Nat
      /\ Top =< Bottom /\ Bottom =< Length - 1 /\ Count >= 1 /\ Top + Count =< Bottom + 1
      /\ Loops!Places = 0 .. Length - 1 /\ Loops!Blank = -1
  BY <1>1, Ranges
<1>3. /\ loop \in {"up", "flush"} => Position = Top
      /\ loop = "down" => Position = Bottom + 1
      /\ loop = "insert" => Position = Bottom
  BY DEF Loops!Init, Loops!Start
<1>4. /\ RunEnd = Position /\ array = [p \in Loops!Places |-> p] /\ console = [p \in Loops!Places |-> Loops!Old]
      /\ step = IF loop = "flush" THEN "run" ELSE "move"
      /\ ~overrun
  BY DEF Loops!Init
<1>5. loop \in {"up", "down", "insert", "flush"}
  BY DEF Loops!Init
<1>6. Loops!TypeOK
  BY <1>2, <1>3, <1>4, <1>5 DEF Loops!TypeOK
<1>7. ASSUME loop = "flush" PROVE Flushing
  BY <1>2, <1>3, <1>4, <1>7 DEF Flushing
<1>8. ASSUME loop # "flush" PROVE Moving
  <2>1. ASSUME NEW p \in Loops!Places, Settled(p) PROVE Loops!Moved(p) = p
    BY <1>1, <1>2, <1>3, <1>4, <1>5, <1>8, <2>1 DEF Settled, Loops!Moved, Called
  <2> QED
    BY <1>1, <1>2, <1>3, <1>4, <1>5, <1>8, <2>1 DEF Moving, Called
<1> QED
  BY <1>1, <1>6, <1>7, <1>8 DEF LoopsInv

\* A step of another part changes nothing.
LEMMA LoopsStutter ==
    ASSUME LoopsInv, UNCHANGED Loops!vars
    PROVE  LoopsInv'
BY DEF LoopsInv, Called, Loops!TypeOK, Flushing, Moving, Settled, Loops!Moved, Loops!vars, Loops!call, Loops!Places, Loops!Blank, Loops!Old

\* A turn of a loop keeps the invariant.
LEMMA LoopsInvStep ==
    ASSUME Loops!ScreenLoopsAssumption, LoopsInv, Loops!Next \/ UNCHANGED Loops!vars
    PROVE  LoopsInv'
BY UpStep, DownStep, InsertStep, FillStep, FindRunStep, WriteRunStep, LoopsStutter DEF Loops!Next

\* A flush has shown the range once it is done.
LEMMA LoopsShow ==
    ASSUME Loops!ScreenLoopsAssumption, LoopsInv
    PROVE  Loops!TypeOK /\ Loops!MovesAsSpecified /\ Loops!FlushShowsRange
<1>1. Loops!TypeOK
  BY DEF LoopsInv
<1>2. Loops!MovesAsSpecified
  BY DEF LoopsInv, Moving, Settled, Loops!MovesAsSpecified
<1>3. ASSUME step = "done", loop = "flush", NEW p \in Loops!Places
      PROVE  console[p] = IF p \in Top .. Bottom THEN <<p, attribute[p]>> ELSE Loops!Old
  <2>1. /\ Position = Bottom + 1
        /\ console[p] = IF p \in Top .. Position - 1 THEN <<p, attribute[p]>> ELSE Loops!Old
    BY <1>3 DEF LoopsInv, Flushing
  <2>2. Called
    BY DEF LoopsInv
  <2> QED
    BY <2>1, <2>2 DEF Called, Loops!Places
<1> QED
  BY <1>1, <1>2, <1>3 DEF Loops!FlushShowsRange

-----------------------------------------------------------------------------
(***************************************************************************)
(* The parts together.  A behaviour is one of a single part, so the        *)
(* invariant is that of the active part.                                   *)
(***************************************************************************)
Inv ==
    /\ active \in {"parser", "rendition", "terminal", "keys", "loops"}
    /\ active = "parser" => ParserInv
    /\ active = "rendition" => RenditionInv
    /\ active = "terminal" => TerminalInv
    /\ active = "keys" => KeysInv
    /\ active = "loops" => LoopsInv

\* What the constants of the parts satisfy.
LEMMA Assumptions == Terminal!TerminalAssumption /\ Loops!ScreenLoopsAssumption
BY PartsAssumption

\* Each part starts in its invariant,
LEMMA InvInit == Init => Inv
<1> SUFFICES ASSUME Init PROVE Inv
  OBVIOUS
<1>1. CASE active = "parser" /\ Parser!Init
  BY <1>1, ParserInvInit, Zenon DEF Inv
<1>2. CASE active = "rendition" /\ Rendition!Init
  BY <1>2, RenditionInvInit, Zenon DEF Inv
<1>3. CASE active = "terminal" /\ Terminal!Init
  BY <1>3, TerminalInvInit, Assumptions, Zenon DEF Inv
<1>4. CASE active = "keys" /\ Keys!Init
  BY <1>4, KeysInvInit, Zenon DEF Inv
<1>5. CASE active = "loops" /\ Loops!Init
  BY <1>5, LoopsInit, Assumptions, Zenon DEF Inv
<1> QED
  BY <1>1, <1>2, <1>3, <1>4, <1>5, Zenon DEF Init

\* keeps it when nothing happens,
LEMMA InvStutter == Inv /\ UNCHANGED vars => Inv'
<1> SUFFICES ASSUME Inv, UNCHANGED vars PROVE Inv'
  OBVIOUS
<1>1. /\ UNCHANGED <<active, Parameters, attribute>>
      /\ UNCHANGED parserVars /\ UNCHANGED renditionVars /\ UNCHANGED terminalVars
      /\ UNCHANGED keyVars /\ UNCHANGED loopVars
  BY DEF vars
<1>2. UNCHANGED Parser!vars
  BY <1>1 DEF parserVars, Parser!vars, Parser!numbers, Parser!utf8
<1>3. UNCHANGED Rendition!vars
  BY <1>1 DEF renditionVars, Rendition!vars, Rendition!style
<1>4. UNCHANGED Terminal!vars
  BY <1>1 DEF terminalVars, Terminal!vars, Terminal!screen, Terminal!console, Terminal!answers
<1>5. UNCHANGED Keys!vars
  BY <1>1 DEF keyVars, Keys!vars
<1>6. UNCHANGED Loops!vars
  BY <1>1 DEF loopVars, Loops!vars, Loops!call
<1>7. active = "parser" => ParserInv'
  BY <1>2, ParserInvStutter, Zenon DEF Inv
<1>8. active = "rendition" => RenditionInv'
  BY <1>3, RenditionInvStutter, Zenon DEF Inv
<1>9. active = "terminal" => TerminalInv'
  BY <1>4, TerminalInvStep, Assumptions, Zenon DEF Inv
<1>10. active = "keys" => KeysInv'
  BY <1>5, KeysInvStep, Zenon DEF Inv
<1>11. active = "loops" => LoopsInv'
  BY <1>6, LoopsInvStep, Assumptions, Zenon DEF Inv
<1>12. active' = active
  BY <1>1
<1> QED
  BY <1>7, <1>8, <1>9, <1>10, <1>11, <1>12, Zenon DEF Inv

\* and in its own steps.
LEMMA InvStep == Inv /\ [Next]_vars => Inv'
<1> SUFFICES ASSUME Inv, [Next]_vars PROVE Inv'
  OBVIOUS
<1>1. CASE ParserStep
  <2>1. active = "parser" /\ active' = active /\ Parser!Next
    BY <1>1 DEF ParserStep
  <2>2. ParserInv'
    BY <2>1, ParserInvStep, Zenon DEF Inv
  <2> QED
    BY <2>1, <2>2, Zenon DEF Inv
<1>2. CASE RenditionStep
  <2>1. active = "rendition" /\ active' = active /\ Rendition!SelectGraphicRendition
    BY <1>2 DEF RenditionStep
  <2>2. RenditionInv'
    BY <2>1, RenditionInvStep, Zenon DEF Inv
  <2> QED
    BY <2>1, <2>2, Zenon DEF Inv
<1>3. CASE TerminalStep
  <2>1. active = "terminal" /\ active' = active /\ Terminal!Next
    BY <1>3 DEF TerminalStep
  <2>2. TerminalInv'
    BY <2>1, TerminalInvStep, Assumptions, Zenon DEF Inv
  <2> QED
    BY <2>1, <2>2, Zenon DEF Inv
<1>4. CASE KeyStep
  <2>1. active = "keys" /\ active' = active /\ Keys!ReadKey
    BY <1>4 DEF KeyStep
  <2>2. KeysInv'
    BY <2>1, KeysInvStep, Zenon DEF Inv
  <2> QED
    BY <2>1, <2>2, Zenon DEF Inv
<1>5. CASE LoopStep
  <2>1. active = "loops" /\ active' = active /\ Loops!Next
    BY <1>5 DEF LoopStep
  <2>2. LoopsInv'
    BY <2>1, LoopsInvStep, Assumptions, Zenon DEF Inv
  <2> QED
    BY <2>1, <2>2, Zenon DEF Inv
<1>6. CASE UNCHANGED vars
  BY <1>6, InvStutter
<1> QED
  BY <1>1, <1>2, <1>3, <1>4, <1>5, <1>6, Zenon DEF Next

\* The invariant of the active part holds at all times.
LEMMA Invariance == Spec => []Inv
BY InvInit, InvStep, PTL DEF Spec

-----------------------------------------------------------------------------
\* TypeOK is an invariant of every part: no index, count or number of Terminal.c
\* leaves its array or its word, the code point of a character in the making keeps
\* within 21 bits, the replies fit in their array and a run in RenderBuffer.
THEOREM TypeCorrect == Spec => []TypeOK
<1>1. Inv => TypeOK
  BY ParserTypeOK, RenditionTypeOK, TerminalShows, LoopsShow, Assumptions, Zenon DEF Inv, TypeOK
<1> QED
  BY <1>1, Invariance, PTL

\* Whatever parameters a rendition has, in whatever order, the last group that
\* speaks of a part of the style decides it (SelectGraphicRendition).
THEOREM RenditionLastGroup == Spec => []LastGroupDecides
<1>1. Inv => LastGroupDecides
  BY LastDecides, Zenon DEF Inv, LastGroupDecides
<1> QED
  BY <1>1, Invariance, PTL

\* Replies reach the server in the order of the queries, each from its first byte on
\* without a gap, for any array and any buffers of the caller, and whole as long as
\* the demand fits in TERMINAL_REPLY_SIZE (QueueReply, WolfSshTerminalTakeResponse).
THEOREM RepliesOrdered == Spec => []RepliesKept
<1>1. Inv => RepliesKept
  BY TerminalShows, Assumptions, Zenon DEF Inv, RepliesKept
<1> QED
  BY <1>1, Invariance, PTL

\* The size the server was told is the one the terminal has, unless the console
\* refused one of the two questions or is larger than UINT16 counts; an open terminal
\* has all its memory and any other none, whichever allocation fails; and
\* WolfSshTerminalDestroy gives the shell its colours and a visible cursor back.
THEOREM LifeOrdered == Spec => []LifeInOrder
<1>1. Inv => LifeInOrder
  BY TerminalShows, Assumptions, Zenon DEF Inv, LifeInOrder
<1> QED
  BY <1>1, Invariance, PTL

\* Every UCS-2 character that is typed is what the server decodes, a key is passed on
\* whole or refused, and no two keys of one mode are the same to the server
\* (WolfSshTerminalReadKey, CopyKeySequence).
THEOREM KeyboardFaithful == Spec => []KeysArrive
<1>1. Inv => KeysArrive
  BY TypedReceived, NothingIsCut, KeysAreDistinct, Zenon DEF Inv, KeysArrive
<1> QED
  BY <1>1, Invariance, PTL

\* Moving rows or cells in place has the effect that Screen gives it in closed form,
\* whatever the length, the range and the count, and a flush shows every cell of the
\* dirty range in its own attribute and no other place.
THEOREM LoopsCorrect == Spec => []LoopsAsSpecified
<1>1. Inv => LoopsAsSpecified
  BY LoopsShow, Assumptions, Zenon DEF Inv, LoopsAsSpecified
<1> QED
  BY <1>1, Invariance, PTL

\* The bytes of the server mean what they spell, whatever they are and however many:
\* a title is neither drawn nor obeyed, a control sequence is carried out with the
\* parameters it spells, text is decoded by the rules of UTF-8, and no cell receives
\* a control character or half a character, C1 controls and overlong forms excepted
\* (WolfSshTerminalFeed, HandleGroundByte).
THEOREM FeedSpelled == Spec => []FeedAsSpelled
<1>1. Inv => FeedAsSpelled
  BY DEF Inv, ParserInv, FeedAsSpelled
<1> QED
  BY <1>1, Invariance, PTL

=============================================================================
