----------------------------- MODULE Conversions -----------------------------
(***************************************************************************)
(* The loops of CopyUnicodeAsAscii, ParsePort and ParseFingerprint         *)
(* (Arguments.c), one step per code unit, against the closed forms of      *)
(* Texts.  One behaviour is one call.  Writing outside Destination adds to *)
(* its domain.                                                             *)
(***************************************************************************)
EXTENDS Texts

CONSTANTS
    Calls,          \* kinds of call: the function, the code units of its text and
                    \* the text's length
    Capacity        \* size of the buffer CopyUnicodeAsAscii fills

Kinds == {"copy", "port", "fingerprint"}

ConversionsAssumption ==
    /\ \A call \in Calls :
         /\ call.kind \in Kinds
         /\ call.units \subseteq CodeUnits /\ call.length \in Nat
    /\ Capacity \in Nat \ {0}

VARIABLES kind, Text, Index, Value, Destination, OutputIndex, Port, status
vars == <<kind, Text, Index, Value, Destination, OutputIndex, Port, status>>

Junk == LastUnit + 1    \* whatever was in the buffer
Nul  == 0
DefaultPort == 22
Room == IF kind = "fingerprint" THEN FingerprintLength + 1 ELSE Capacity

Running == status = "RUNNING"
AtEnd   == Index >= Len(Text)
Unit    == Text[Index + 1]
Ends(s) == status' = s /\ UNCHANGED Index
Advances == status' = status /\ Index' = Index + 1
Stored(i, unit) ==
    [k \in DOMAIN Destination \cup {i} |-> IF k = i THEN unit ELSE Destination[k]]

-----------------------------------------------------------------------------
NoRoomForNul == Index >= Capacity
TooLong == Index + 1 >= Capacity

CopyUnicodeAsAscii ==
    /\ kind = "copy" /\ Running
    /\ IF AtEnd
       THEN Destination' = Stored(Index, Nul) /\ Ends("SUCCESS")
       ELSE IF TooLong \/ Unit > 127
       THEN Destination' = Stored(0, Nul) /\ Ends("INVALID_PARAMETER")
       ELSE Destination' = Stored(Index, Unit) /\ Advances
    /\ UNCHANGED <<kind, Text, Value, OutputIndex, Port>>

AtTheEndOnly(v) == AtEnd /\ v > MAX_UINT16
FromTheLargest(v) == v >= MAX_UINT16
TooLarge(v) == v > MAX_UINT16

ParsePort ==
    /\ kind = "port" /\ Running
    /\ IF AtEnd
       THEN IF Text = << >> \/ Value = 0
            THEN Ends("INVALID_PARAMETER") /\ UNCHANGED <<Value, Port>>
            ELSE Ends("SUCCESS") /\ Port' = Value % (MAX_UINT16 + 1) /\ UNCHANGED Value
       ELSE IF ~IsDigit(Unit)
       THEN Ends("INVALID_PARAMETER") /\ UNCHANGED <<Value, Port>>
       ELSE /\ Value' = Value * 10 + (Unit - 48)
            /\ IF TooLarge(Value') THEN Ends("INVALID_PARAMETER") ELSE Advances
            /\ UNCHANGED Port
    /\ UNCHANGED <<kind, Text, Destination, OutputIndex>>

AnyDigits == OutputIndex # 0
Complete  == OutputIndex = FingerprintLength

ParseFingerprint ==
    /\ kind = "fingerprint" /\ Running
    /\ IF AtEnd
       THEN IF ~Complete
            THEN Ends("INVALID_PARAMETER") /\ UNCHANGED <<Destination, OutputIndex>>
            ELSE /\ Ends("SUCCESS")
                 /\ Destination' = Stored(OutputIndex, Nul)
                 /\ UNCHANGED OutputIndex
       ELSE IF Unit \in Separators THEN Advances /\ UNCHANGED <<Destination, OutputIndex>>
       ELSE IF HexValue(Unit) < 0 \/ OutputIndex >= FingerprintLength
       THEN Ends("INVALID_PARAMETER") /\ UNCHANGED <<Destination, OutputIndex>>
       ELSE /\ Destination' = Stored(OutputIndex, HexDigit(HexValue(Unit)))
            /\ OutputIndex' = OutputIndex + 1
            /\ Advances
    /\ UNCHANGED <<kind, Text, Value, Port>>

Init ==
    /\ \E call \in Calls :
         /\ kind = call.kind
         /\ Text \in UNION {[1 .. n -> call.units] : n \in 0 .. call.length}
    /\ Index = 0 /\ Value = 0 /\ OutputIndex = 0 /\ Port = DefaultPort
    /\ Destination = [k \in 0 .. Room - 1 |-> Junk]
    /\ status = "RUNNING"

Next == CopyUnicodeAsAscii \/ ParsePort \/ ParseFingerprint
Spec == Init /\ [][Next]_vars

-----------------------------------------------------------------------------
(***************************************************************************)
(* Properties.                                                             *)
(***************************************************************************)
Accepted == status = "SUCCESS"
Rejected == status = "INVALID_PARAMETER"

\* Every variable has its type; no byte is written outside the buffer, and the
\* number read so far cannot outgrow its word however long the text.
TypeOK ==
    /\ kind \in Kinds /\ status \in {"RUNNING", "SUCCESS", "INVALID_PARAMETER"}
    /\ Index \in 0 .. Len(Text) /\ OutputIndex \in 0 .. FingerprintLength
    /\ Value \in 0 .. MAX_UINT16 * 10 + 9 /\ Port \in 1 .. MAX_UINT16
    /\ Destination \in [0 .. Room - 1 -> 0 .. Junk]

\* The NUL-terminated text at the start of the buffer.
Holds(text) ==
    /\ Destination[Len(text)] = Nul
    /\ \A k \in DOMAIN text : Destination[k - 1] = text[k]

\* Each loop accepts exactly the texts it should and leaves what the closed form
\* says: the copied text, the port, the digest in lower case.  A text that is
\* refused leaves the port alone and no part of a name or password behind.
LoopsCompute ==
    /\ kind = "copy" =>
         /\ Accepted => Fits(Text, Capacity) /\ Holds(Text)
         /\ Rejected => ~Fits(Text, Capacity) /\ Holds(<< >>)
    /\ kind = "port" =>
         /\ Accepted => Port = ParsedPort(Text) /\ Port # 0
         /\ Rejected => ParsedPort(Text) = 0 /\ Port = DefaultPort
    /\ kind = "fingerprint" =>
         /\ Accepted => IsFingerprint(Text) /\ Holds(Normalized(Text))
         /\ Rejected => ~IsFingerprint(Text)
=============================================================================
