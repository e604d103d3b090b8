--------------------------------- MODULE Auth ---------------------------------
(***************************************************************************)
(* The callbacks through which wolfSSH asks the program to judge a host    *)
(* key and to supply a password (Auth.c).                                  *)
(*                                                                         *)
(* wolfSSH is external: it exchanges keys as often as it likes, asks for a *)
(* password only after an exchange whose key was accepted, and asks again  *)
(* when the server refused the password.  SHA-256 is taken as injective,   *)
(* so that a key stands for its fingerprint.                               *)
(***************************************************************************)
EXTENDS Naturals, Sequences

CONSTANTS
    HostKeys,     \* keys a server may present
    Fingerprint,  \* the key that -f names
    Chars,        \* printable characters
    Capacity,     \* WOLFSSH_UEFI_PASSWORD_CAPACITY
    MaxRuns       \* times the program is started in one boot

ASSUME AuthAssumption ==
    /\ Fingerprint \in HostKeys
    /\ Capacity \in Nat \ {0}
    /\ MaxRuns \in Nat \ {0}

VARIABLES
    pc,           \* "library", or the prompt a callback waits at
    HaveFingerprint, AcceptAnyHostKey, HavePassword, Password,
    HostKeyChecked, HostKeyAccepted, PasswordPrompted,
    agreed,       \* the last key exchange succeeded
    offered,      \* key of the last exchange
    runs,         \* starts of the program in this boot
    judged,       \* history: the keys judged in this run
    confirmed,    \* history: the keys the user accepted in this boot
    questions,    \* history: host key questions in this run
    prompts,      \* history: password prompts in this run
    complete,     \* history: passwords given or ended with Enter, this run
    released      \* history: passwords handed to wolfSSH, this run

options == <<HaveFingerprint, AcceptAnyHostKey>>
secrets == <<HavePassword, Password>>
auth    == <<HostKeyChecked, HostKeyAccepted, PasswordPrompted>>
library == <<agreed, offered>>
history == <<judged, confirmed, questions, prompts, complete, released>>
vars    == <<pc, options, secrets, auth, library, runs, history>>

Passwords == UNION {[1 .. n -> Chars] : n \in 0 .. Capacity - 1}

-----------------------------------------------------------------------------
(***************************************************************************)
(* WolfSshHostKeyCallback.                                                 *)
(***************************************************************************)

Return(ok, k) == agreed' = ok /\ offered' = k /\ pc' = "library"

\* No key, or a failed digest: refused without a decision.
HostKeyUnusable ==
    /\ pc = "library"
    /\ \E k \in HostKeys : Return(FALSE, k)
    /\ UNCHANGED <<options, secrets, auth, runs, history>>

OnlyAcceptedIsCached == HostKeyAccepted
AlreadyJudged        == HostKeyChecked
CheckedIsAccepted    == HostKeyChecked
CachedResult         == HostKeyAccepted

HostKeyCached ==
    /\ pc = "library" /\ AlreadyJudged
    /\ \E k \in HostKeys : Return(CachedResult, k)
    /\ UNCHANGED <<options, secrets, auth, runs, history>>

Judge(k, ok) ==
    /\ HostKeyChecked' = TRUE /\ HostKeyAccepted' = ok
    /\ judged' = judged \cup {k}
    /\ UNCHANGED PasswordPrompted

HostKeyPinned ==
    /\ pc = "library" /\ ~AlreadyJudged /\ HaveFingerprint
    /\ \E k \in HostKeys :
          /\ Judge(k, k = Fingerprint)
          /\ Return(k = Fingerprint, k)
    /\ UNCHANGED <<options, secrets, runs, confirmed, questions, prompts, complete,
                   released>>

HostKeyAny ==
    /\ pc = "library" /\ ~AlreadyJudged /\ ~HaveFingerprint /\ AcceptAnyHostKey
    /\ \E k \in HostKeys : Judge(k, TRUE) /\ Return(TRUE, k)
    /\ UNCHANGED <<options, secrets, runs, confirmed, questions, prompts, complete,
                   released>>

\* HostKeyChecked is set before the user has answered.
HostKeyAsk ==
    /\ pc = "library" /\ ~AlreadyJudged /\ ~HaveFingerprint /\ ~AcceptAnyHostKey
    /\ \E k \in HostKeys : offered' = k /\ judged' = judged \cup {k}
    /\ HostKeyChecked' = TRUE
    /\ questions' = questions + 1
    /\ pc' = "confirm"
    /\ UNCHANGED <<options, secrets, HostKeyAccepted, PasswordPrompted, agreed, runs,
                   confirmed, prompts, complete, released>>

\* Keys other than y, n, Enter and Escape are read and ignored; a console error
\* counts as no.
ReadConfirmation ==
    /\ pc = "confirm"
    /\ \E yes \in BOOLEAN :
          /\ HostKeyAccepted' = yes
          /\ Return(yes, offered)
          /\ confirmed' = confirmed \cup (IF yes THEN {offered} ELSE {})
    /\ UNCHANGED <<options, secrets, HostKeyChecked, PasswordPrompted, runs,
                   judged, questions, prompts, complete, released>>

-----------------------------------------------------------------------------
(***************************************************************************)
(* WolfSshUserAuthCallback and ReadPassword.                               *)
(***************************************************************************)

PromptWheneverMissing == ~HavePassword
MustPrompt            == ~HavePassword /\ ~PasswordPrompted
PromptedIsEnough      == HavePassword \/ PasswordPrompted
HasPassword           == HavePassword

UserAuthPrompts ==
    /\ pc = "library" /\ agreed /\ MustPrompt
    /\ PasswordPrompted' = TRUE
    /\ Password' = <<>>
    /\ prompts' = prompts + 1
    /\ pc' = "password"
    /\ UNCHANGED <<options, HavePassword, HostKeyChecked, HostKeyAccepted, library,
                   runs, judged, confirmed, questions, complete, released>>

Release ==
    /\ released' = released \cup {Password}
    /\ pc' = "library"

UserAuthSupplies ==
    /\ pc = "library" /\ agreed /\ ~MustPrompt /\ HasPassword
    /\ Release
    /\ UNCHANGED <<options, secrets, auth, library, runs, judged, confirmed,
                   questions, prompts, complete>>

NoRoomForNul == Len(Password) < Capacity
Room         == Len(Password) + 1 < Capacity

TypeChar ==
    /\ pc = "password" /\ Room
    /\ \E c \in Chars : Password' = Append(Password, c)
    /\ UNCHANGED <<pc, options, HavePassword, auth, library, runs, history>>

Backspace ==
    /\ pc = "password" /\ Password # <<>>
    /\ Password' = SubSeq(Password, 1, Len(Password) - 1)
    /\ UNCHANGED <<pc, options, HavePassword, auth, library, runs, history>>

\* The callback goes on and hands the password over.
Enter ==
    /\ pc = "password"
    /\ HavePassword' = TRUE
    /\ complete' = complete \cup {Password}
    /\ Release
    /\ UNCHANGED <<options, Password, auth, library, runs, judged, confirmed,
                   questions, prompts>>

\* What was typed stays in the buffer, but HavePassword stays FALSE.
ConsoleFails ==
    /\ pc = "password"
    /\ pc' = "library"
    /\ UNCHANGED <<options, secrets, auth, library, runs, history>>

-----------------------------------------------------------------------------
(***************************************************************************)
(* UefiMain starts with parsed options and a zeroed WOLFSSH_UEFI_AUTH.     *)
(***************************************************************************)

\* The command lines WolfSshParseArguments accepts: never both -f and -y.
CommandLines ==
    {o \in [f : BOOLEAN, y : BOOLEAN, P : BOOLEAN, password : Passwords] :
        ~(o.f /\ o.y) /\ (~o.P => o.password = <<>>)}

Init ==
    /\ \E o \in CommandLines :
          /\ HaveFingerprint = o.f /\ AcceptAnyHostKey = o.y
          /\ HavePassword = o.P /\ Password = o.password
          /\ complete = IF o.P THEN {o.password} ELSE {}
    /\ HostKeyChecked = FALSE /\ HostKeyAccepted = FALSE /\ PasswordPrompted = FALSE
    /\ pc = "library" /\ agreed = FALSE /\ offered = Fingerprint
    /\ runs = 1 /\ judged = {} /\ confirmed = {} /\ released = {}
    /\ questions = 0 /\ prompts = 0

\* The program ends and is started again, with other arguments perhaps.
RunAgain ==
    /\ pc = "library" /\ runs < MaxRuns
    /\ \E o \in CommandLines :
          /\ HaveFingerprint' = o.f /\ AcceptAnyHostKey' = o.y
          /\ HavePassword' = o.P /\ Password' = o.password
          /\ complete' = IF o.P THEN {o.password} ELSE {}
    /\ HostKeyChecked' = FALSE /\ HostKeyAccepted' = FALSE /\ PasswordPrompted' = FALSE
    /\ agreed' = FALSE /\ offered' = Fingerprint
    /\ runs' = runs + 1 /\ judged' = {} /\ released' = {}
    /\ questions' = 0 /\ prompts' = 0
    /\ UNCHANGED <<pc, confirmed>>

HostKeyCallback  == HostKeyUnusable \/ HostKeyCached \/ HostKeyPinned \/ HostKeyAny
                      \/ HostKeyAsk \/ ReadConfirmation
UserAuthCallback == UserAuthPrompts \/ UserAuthSupplies \/ TypeChar \/ Backspace
                      \/ Enter \/ ConsoleFails

Next == HostKeyCallback \/ UserAuthCallback \/ RunAgain
Spec == Init /\ [][Next]_vars
-----------------------------------------------------------------------------
(***************************************************************************)
(* Properties.                                                             *)
(***************************************************************************)

\* Every variable has its type; the password always leaves room for its NUL.
TypeOK ==
    /\ pc \in {"library", "confirm", "password"}
    /\ HaveFingerprint \in BOOLEAN /\ AcceptAnyHostKey \in BOOLEAN
    /\ HavePassword \in BOOLEAN
    /\ Password \in Seq(Chars) /\ Len(Password) < Capacity
    /\ HostKeyChecked \in BOOLEAN /\ HostKeyAccepted \in BOOLEAN
    /\ PasswordPrompted \in BOOLEAN /\ agreed \in BOOLEAN
    /\ offered \in HostKeys /\ runs \in 1 .. MaxRuns
    /\ judged \subseteq HostKeys /\ confirmed \subseteq HostKeys
    /\ questions \in Nat /\ prompts \in Nat
    /\ complete \subseteq Seq(Chars) /\ released \subseteq Seq(Chars)

\* WolfSshUserAuthCallback hands over a password only in a run in which one key
\* was judged and accepted: the pinned one under -f, one the user confirmed when
\* neither -f nor -y was given, through any number of key exchanges.
TrustBeforePassword ==
    released # {} =>
      \E k \in judged :
        /\ judged = {k} /\ HostKeyAccepted
        /\ HaveFingerprint => k = Fingerprint
        /\ HaveFingerprint \/ AcceptAnyHostKey \/ k \in confirmed

\* A decision of WolfSshHostKeyCallback is final for the run, refusals too: no
\* later exchange gets the user to reconsider.
DecisionFinal ==
    [][HostKeyChecked /\ pc # "confirm" /\ runs' = runs
         => HostKeyChecked' /\ HostKeyAccepted' = HostKeyAccepted]_vars

\* However often the server refuses the password or the keys are exchanged, a
\* run asks the user at most once about the host key and once for a password.
AskedOnce == questions =< 1 /\ prompts =< 1

\* What ReadPassword leaves in the buffer after a console error is never sent:
\* a password handed over was given with -P or ended with Enter.
NoPartialPassword == released \subseteq complete

\* The question "Accept this host key for this boot?" is not put again, in the
\* same boot, for a key the user has accepted.
AcceptedForThisBoot == pc = "confirm" => offered \notin confirmed
=============================================================================
