---------------------------- MODULE LibraryParts ----------------------------
(***************************************************************************)
(* UefiCompat.c and Arguments.c, explored in one run: the allocator and    *)
(* random source, the C functions, the command line and the conversions    *)
(* of its values.  They share no state, so a behaviour is one of a single  *)
(* part, `active', while the variables of the others are Off.              *)
(***************************************************************************)
EXTENDS Integers, Sequences

CONSTANTS
    Slots, Sizes, MAX_UINTN, HeaderSize, MaxWrites,             \* Compat
    Bytes, ArrayLength,                                         \* CStrings
    Words, MaxWords, Addresses, FingerprintLength,
    UsernameCapacity, PasswordCapacity, TargetCapacity,         \* Arguments
    Calls, Capacity, DigestLength,                              \* Conversions
    MAX_UINT16                                                  \* both

VARIABLES
    active,
    room, header, Size, bytes, owned, stale, expected, writes, corrupted, mRng, installed,
    random,
    function, First, Second, Length, result, astray,
    Argv, Username, Password, HavePassword, Fingerprint, HaveFingerprint,
    AcceptAnyHostKey, Help, SelfTest, Address, Target, HaveUsername,
    kind, Text, Value, OutputIndex,
    Port, status,               \* Arguments and Conversions
    Destination,                \* CStrings and Conversions
    Index                       \* all three

compatVars     == <<room, header, Size, bytes, owned, stale, expected, writes, corrupted,
                    mRng, installed, random>>
stringVars     == <<function, First, Second, Length, result, astray>>
argumentVars   == <<Argv, Username, Password, HavePassword, Fingerprint, HaveFingerprint,
                    AcceptAnyHostKey, Help, SelfTest, Address, Target, HaveUsername>>
conversionVars == <<kind, Text, Value, OutputIndex>>
vars == <<active, compatVars, stringVars, argumentVars, conversionVars, Port, status,
          Destination, Index>>

-----------------------------------------------------------------------------
(***************************************************************************)
(* The parts.                                                              *)
(***************************************************************************)
Compat == INSTANCE Compat
Strings == INSTANCE CStrings
Arguments == INSTANCE Arguments
Conversions == INSTANCE Conversions WITH FingerprintLength <- DigestLength

ASSUME PartsAssumption ==
    /\ Compat!CompatAssumption /\ Compat!NullAssumption
    /\ Strings!CStringsAssumption
    /\ Arguments!ArgumentsAssumption /\ Arguments!TextsAssumption
    /\ Conversions!ConversionsAssumption /\ Conversions!TextsAssumption

-----------------------------------------------------------------------------
(***************************************************************************)
(* The run.                                                                *)
(***************************************************************************)
Off == "off"

CompatOff ==
    /\ room = Off /\ header = Off /\ Size = Off /\ bytes = Off /\ owned = Off /\ stale = Off
    /\ expected = Off /\ writes = Off /\ corrupted = Off /\ mRng = Off /\ installed = Off
    /\ random = Off
StringsOff ==
    /\ function = Off /\ First = Off /\ Second = Off /\ Length = Off /\ result = Off
    /\ astray = Off
ArgumentsOff ==
    /\ Argv = Off /\ Username = Off /\ Password = Off /\ HavePassword = Off
    /\ Fingerprint = Off /\ HaveFingerprint = Off /\ AcceptAnyHostKey = Off /\ Help = Off
    /\ SelfTest = Off /\ Address = Off /\ Target = Off /\ HaveUsername = Off
ConversionsOff == kind = Off /\ Text = Off /\ Value = Off /\ OutputIndex = Off

Init ==
    \/ /\ active = "compat" /\ Compat!Init
       /\ Port = Off /\ status = Off /\ Destination = Off /\ Index = Off
       /\ StringsOff /\ ArgumentsOff /\ ConversionsOff
    \/ /\ active = "strings" /\ Strings!Init /\ Port = Off /\ status = Off
       /\ CompatOff /\ ArgumentsOff /\ ConversionsOff
    \/ /\ active = "arguments" /\ Arguments!Init /\ Destination = Off
       /\ CompatOff /\ StringsOff /\ ConversionsOff
    \/ /\ active = "conversions" /\ Conversions!Init
       /\ CompatOff /\ StringsOff /\ ArgumentsOff

CompatStep ==
    /\ active = "compat" /\ Compat!Next
    /\ UNCHANGED <<active, Port, status, Destination, Index, stringVars, argumentVars,
                   conversionVars>>
StringStep ==
    /\ active = "strings" /\ Strings!Next
    /\ UNCHANGED <<active, Port, status, compatVars, argumentVars, conversionVars>>
ArgumentStep ==
    /\ active = "arguments" /\ Arguments!Next
    /\ UNCHANGED <<active, Destination, compatVars, stringVars, conversionVars>>
ConversionStep ==
    /\ active = "conversions" /\ Conversions!Next
    /\ UNCHANGED <<active, compatVars, stringVars, argumentVars>>

Next == CompatStep \/ StringStep \/ ArgumentStep \/ ConversionStep
Spec == Init /\ [][Next]_vars

-----------------------------------------------------------------------------
(***************************************************************************)
(* Properties, each stated in full by the module of its part.              *)
(***************************************************************************)
\* Every variable of the active part has its type: a block has room for its header
\* and its size, no text or digest is written past its field, and a port being read
\* stays in its word (UefiCompat.c, Arguments.c).
TypeOK ==
    /\ active = "compat" => Compat!TypeOK
    /\ active = "arguments" => Arguments!TypeOK
    /\ active = "conversions" => Conversions!TypeOK

\* What the callers were told holds: a block is in the pool exactly as long as
\* somebody holds it, the pool is never given one twice, an owner finds what it wrote
\* across reallocations, and bytes reported as random are (UefiCompatAllocate,
\* UefiCompatFree, UefiCompatReallocate, UefiRandomGenerateBlock).
ServicesKept ==
    active = "compat" =>
      /\ Compat!HeldIsAllocated /\ Compat!PoolIntact /\ Compat!ContentKept
      /\ Compat!RandomOrFailure

\* The results are those of the C standard, and no byte outside the arrays is read
\* or written (memcmp, strlen, strcmp, strncmp, strncpy, strncat).
AsStandardSays == active = "strings" => Strings!StaysInside /\ Strings!AsStandardSays

\* The command line is read as it is meant, and a connection has a name, an address
\* and one way to judge the host key (WolfSshParseArguments).
ReadAsMeant == active = "arguments" => Arguments!ReadAsMeant /\ Arguments!ReadyToConnect

\* The loops accept and leave what the closed forms of Texts say
\* (CopyUnicodeAsAscii, ParsePort, ParseFingerprint).
LoopsCompute == active = "conversions" => Conversions!LoopsCompute
=============================================================================
