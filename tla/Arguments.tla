------------------------------ MODULE Arguments ------------------------------
(***************************************************************************)
(* WolfSshParseArguments (Arguments.c): one step per turn of its loop over *)
(* the shell's arguments, and one for what follows the loop.               *)
(*                                                                         *)
(* An argument is the sequence of its code units.  NetLibAsciiStrToIp4 is  *)
(* external: Addresses are the texts it accepts.                           *)
(***************************************************************************)
EXTENDS Texts, FiniteSetsExt

CONSTANTS
    Words,              \* arguments that are given
    MaxWords,           \* how many, not counting the program's name
    Addresses,
    UsernameCapacity, PasswordCapacity, TargetCapacity

ArgumentsAssumption ==
    /\ Words \subseteq Seq(CodeUnits) /\ MaxWords \in Nat
    /\ UsernameCapacity \in Nat \ {0} /\ PasswordCapacity \in Nat \ {0}
    /\ TargetCapacity \in Nat \ {0}

VARIABLES
    Argv, Index,
    Port, Username, Password, HavePassword, Fingerprint, HaveFingerprint,
    AcceptAnyHostKey, Help, SelfTest, Address,      \* Options
    Target, HaveUsername,                           \* locals
    status

values == <<Port, Username, Password, HavePassword, Fingerprint, HaveFingerprint, HaveUsername>>
flags  == <<AcceptAnyHostKey, Help, SelfTest>>
vars   == <<Argv, Index, values, flags, Address, Target, status>>

Dash == 45
At   == 64
None == <<0>>                   \* NULL, which no text is
HelpFlags == {<<45, 104>>, <<45, 45, 104, 101, 108, 112>>, <<45, 63>>}
SelfTestFlag == <<45, 45, 115, 101, 108, 102, 45, 116, 101, 115, 116>>
YesFlag  == <<45, 121>>
PortFlag == <<45, 112>>
PasswordFlag == <<45, 80>>
FingerprintFlag == <<45, 102>>
UserFlag == <<45, 108>>
ValueFlags == {PortFlag, PasswordFlag, FingerprintFlag, UserFlag}
Switches == HelpFlags \cup {SelfTestFlag, YesFlag}

Running == status = "RUNNING"
More == Index =< Len(Argv)
Arg  == Argv[Index]
Fails == status' = "INVALID_PARAMETER" /\ UNCHANGED Index

-----------------------------------------------------------------------------
(***************************************************************************)
(* The loop.                                                               *)
(***************************************************************************)
Switch ==
    /\ Running /\ More /\ Arg \in Switches
    /\ Help' = (Help \/ Arg \in HelpFlags)
    /\ SelfTest' = (SelfTest \/ Arg = SelfTestFlag)
    /\ AcceptAnyHostKey' = (AcceptAnyHostKey \/ Arg = YesFlag)
    /\ Index' = Index + 1
    /\ UNCHANGED <<Argv, values, Address, Target, status>>

\* An option whose value is missing or not acceptable ends the parsing.  A refused
\* name or password leaves its field empty; what a refused digest leaves of its
\* field is not modelled, as nothing reads it.
AlwaysAcceptable(flag, value) == TRUE
Acceptable(flag, value) ==
    CASE flag = PortFlag        -> ParsedPort(value) # 0
      [] flag = PasswordFlag    -> Fits(value, PasswordCapacity)
      [] flag = FingerprintFlag -> IsFingerprint(value)
      [] flag = UserFlag        -> Fits(value, UsernameCapacity)

Cleared(flag, old) == IF Arg = flag /\ Index < Len(Argv) THEN << >> ELSE old

ReadsValueAgain == Index + 1
AfterValue == Index + 2

ValueFlag ==
    /\ Running /\ More /\ Arg \in ValueFlags
    /\ IF Index = Len(Argv) \/ ~Acceptable(Arg, Argv[Index + 1])
       THEN /\ Fails
            /\ Password' = Cleared(PasswordFlag, Password)
            /\ Username' = Cleared(UserFlag, Username)
            /\ UNCHANGED <<Port, HavePassword, Fingerprint, HaveFingerprint, HaveUsername>>
       ELSE LET value == Argv[Index + 1]
            IN /\ Index' = AfterValue
               /\ Port' = IF Arg = PortFlag THEN ParsedPort(value) ELSE Port
               /\ Password' = IF Arg = PasswordFlag THEN value ELSE Password
               /\ HavePassword' = (HavePassword \/ Arg = PasswordFlag)
               /\ Fingerprint' = IF Arg = FingerprintFlag THEN Normalized(value) ELSE Fingerprint
               /\ HaveFingerprint' = (HaveFingerprint \/ Arg = FingerprintFlag)
               /\ Username' = IF Arg = UserFlag THEN value ELSE Username
               /\ HaveUsername' = (HaveUsername \/ Arg = UserFlag)
               /\ UNCHANGED status
    /\ UNCHANGED <<Argv, flags, Address, Target>>

IsOption(word) == word # << >> /\ word[1] = Dash

Positional ==
    /\ Running /\ More /\ Arg \notin Switches \cup ValueFlags
    /\ IF IsOption(Arg) \/ Target # None
       THEN Fails /\ UNCHANGED Target
       ELSE Target' = Arg /\ Index' = Index + 1 /\ UNCHANGED status
    /\ UNCHANGED <<Argv, values, flags, Address>>

-----------------------------------------------------------------------------
(***************************************************************************)
(* After the loop.  User and Host are what ParseTarget finds before and    *)
(* after the first @.                                                      *)
(***************************************************************************)
HasAt(text) == \E k \in DOMAIN text : text[k] = At
Place(text) == Min({k \in DOMAIN text : text[k] = At})
User(text)  == SubSeq(text, 1, Place(text) - 1)
Host(text)  == IF HasAt(text) THEN SubSeq(text, Place(text) + 1, Len(text)) ELSE text

NamesUser(text) ==
    /\ Fits(text, TargetCapacity) /\ HasAt(text)
    /\ User(text) # << >> /\ Len(User(text)) < UsernameCapacity
ParseTarget(text) ==
    /\ NamesUser(text) \/ (Fits(text, TargetCapacity) /\ ~HasAt(text) /\ HaveUsername)
    /\ Host(text) # << >> /\ Host(text) \in Addresses

Found == Target # None /\ ParseTarget(Target)
UsernameAfter == IF Target # None /\ NamesUser(Target) THEN User(Target) ELSE Username
TrustWithoutPin == TRUE
TrustIsClear == ~(AcceptAnyHostKey /\ HaveFingerprint)

Finish ==
    /\ Running /\ ~More
    /\ \/ /\ Help \/ SelfTest
          /\ status' = "SUCCESS" /\ UNCHANGED <<Username, Address>>
       \/ /\ ~(Help \/ SelfTest)
          /\ Username' = UsernameAfter
          /\ Address' = IF Found THEN Host(Target) ELSE Address
          /\ status' = IF Found /\ UsernameAfter # << >> /\ TrustIsClear
                       THEN "SUCCESS" ELSE "INVALID_PARAMETER"
    /\ UNCHANGED <<Argv, Index, Port, Password, HavePassword, Fingerprint, HaveFingerprint,
                   HaveUsername, flags, Target>>

\* The shell did not start the program: HandleProtocol finds no parameters.
NoParameters ==
    /\ Running /\ Index = 1
    /\ status' = "ERROR"
    /\ UNCHANGED <<Argv, Index, values, flags, Address, Target>>

Init ==
    /\ Argv \in UNION {[1 .. n -> Words] : n \in 0 .. MaxWords}
    /\ Index = 1 /\ Port = 22
    /\ Username = << >> /\ Password = << >> /\ Fingerprint = << >> /\ Address = << >>
    /\ HavePassword = FALSE /\ HaveFingerprint = FALSE /\ HaveUsername = FALSE
    /\ AcceptAnyHostKey = FALSE /\ Help = FALSE /\ SelfTest = FALSE
    /\ Target = None /\ status = "RUNNING"

Next == Switch \/ ValueFlag \/ Positional \/ Finish \/ NoParameters
Spec == Init /\ [][Next]_vars

-----------------------------------------------------------------------------
(***************************************************************************)
(* Properties.                                                             *)
(***************************************************************************)
\* Every variable has its type; every text fits its array with its NUL.
TypeOK ==
    /\ Index \in 1 .. Len(Argv) + 1
    /\ status \in {"RUNNING", "SUCCESS", "INVALID_PARAMETER", "ERROR"}
    /\ Port \in 1 .. MAX_UINT16
    /\ Fits(Username, UsernameCapacity) /\ Fits(Password, PasswordCapacity)
    /\ Len(Fingerprint) \in {0, FingerprintLength}
    /\ {HavePassword, HaveFingerprint, HaveUsername, AcceptAnyHostKey, Help, SelfTest}
         \subseteq BOOLEAN
    /\ Target = None \/ Target \in Words

(***************************************************************************)
(* How a command line is meant to be read, without a loop.  A word is the  *)
(* value of an option when an odd number of option words stand right       *)
(* before it: each of them that is not itself a value takes the next word. *)
(***************************************************************************)
Places == DOMAIN Argv
Before(i) == LET others == {k \in 0 .. i - 1 : k = 0 \/ Argv[k] \notin ValueFlags}
             IN i - 1 - Max(others)
IsValue(i) == Before(i) % 2 = 1
ValuesOf(flag) == {i \in Places : IsValue(i) /\ Argv[i - 1] = flag}
Given(set) == {i \in Places : ~IsValue(i) /\ Argv[i] \in set}
Targets == {i \in Places : ~IsValue(i) /\ Argv[i] \notin Switches \cup ValueFlags}
LastOf(flag, default) ==
    IF ValuesOf(flag) = {} THEN default ELSE Argv[Max(ValuesOf(flag))]

WellFormed ==
    /\ \A i \in Places : IsValue(i) => Acceptable(Argv[i - 1], Argv[i])
    /\ Len(Argv) # 0 /\ Argv[Len(Argv)] \in ValueFlags => IsValue(Len(Argv))
    /\ \A i \in Targets : ~IsOption(Argv[i])
    /\ \A i, j \in Targets : i = j

Connects ==
    /\ Targets # {}
    /\ \A i \in Targets :
         LET text == Argv[i]
             name == IF HasAt(text) THEN User(text) ELSE LastOf(UserFlag, << >>)
         IN /\ Fits(text, TargetCapacity) /\ Host(text) # << >> /\ Host(text) \in Addresses
            /\ name # << >> /\ Len(name) < UsernameCapacity
            /\ status = "SUCCESS" /\ ~Help /\ ~SelfTest =>
                 Username = name /\ Address = Host(text)
    /\ ValuesOf(FingerprintFlag) = {} \/ Given({YesFlag}) = {}

\* The command line is read as it is meant: the loop accepts exactly the
\* well-formed lines that ask for help, for the self-test or for a complete
\* connection, the last of several values of an option counts, a value that looks
\* like an option is still a value, and user@ goes before -l.
ReadAsMeant ==
    status \in {"SUCCESS", "INVALID_PARAMETER"} =>
      /\ (status = "SUCCESS") =
           (WellFormed /\ (Given(HelpFlags \cup {SelfTestFlag}) # {} \/ Connects))
      /\ status = "SUCCESS" =>
           /\ Help = (Given(HelpFlags) # {}) /\ SelfTest = (Given({SelfTestFlag}) # {})
           /\ AcceptAnyHostKey = (Given({YesFlag}) # {})
           /\ Port = ParsedPort(LastOf(PortFlag, <<50, 50>>))
           /\ Password = LastOf(PasswordFlag, << >>)
           /\ HavePassword = (ValuesOf(PasswordFlag) # {})
           /\ Fingerprint = Normalized(LastOf(FingerprintFlag, << >>))
           /\ HaveFingerprint = (ValuesOf(FingerprintFlag) # {})

\* What the rest of the program relies on when it connects: a name, an address
\* and one way to judge the host key, never both a pinned digest and -y.
ReadyToConnect ==
    status = "SUCCESS" /\ ~Help /\ ~SelfTest =>
      /\ Username # << >> /\ Address \in Addresses
      /\ HaveFingerprint => ~AcceptAnyHostKey /\ Len(Fingerprint) = FingerprintLength
=============================================================================
