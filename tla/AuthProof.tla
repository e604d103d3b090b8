------------------------------ MODULE AuthProof ------------------------------
(***************************************************************************)
(* Proofs about Auth for any number of keys, password capacity and runs of *)
(* the program.                                                            *)
(***************************************************************************)
EXTENDS Auth, TLAPS

\* The key a decision is about satisfies the mode the program runs in.
Trusted(k) == /\ HaveFingerprint => k = Fingerprint
              /\ HaveFingerprint \/ AcceptAnyHostKey \/ k \in confirmed

\* The host key: judged at most once, agreed and released only when accepted.
KeyInv ==
    /\ HostKeyAccepted => HostKeyChecked /\ \E k \in judged : judged = {k} /\ Trusted(k)
    /\ ~HostKeyChecked => judged = {} /\ questions = 0
    /\ questions =< 1
    /\ agreed => HostKeyAccepted
    /\ released # {} => HostKeyAccepted
    /\ pc = "confirm" => /\ HostKeyChecked /\ ~HostKeyAccepted
                         /\ judged = {offered}
                         /\ ~HaveFingerprint
    /\ pc = "password" => agreed /\ PasswordPrompted /\ ~HavePassword

\* The password: complete when it is there, asked for at most once.
PasswordInv ==
    /\ HavePassword => Password \in complete
    /\ released \subseteq complete
    /\ ~PasswordPrompted => prompts = 0
    /\ prompts =< 1

-----------------------------------------------------------------------------
(***************************************************************************)
(* Types.                                                                  *)
(***************************************************************************)

\* TypeOK is an invariant: in particular a password of a run never fills its
\* buffer to the last byte, whatever is typed and erased in ReadPassword.
THEOREM TypeCorrect == Spec => []TypeOK
<1> USE AuthAssumption
<1>0. ASSUME NEW o \in CommandLines
      PROVE  /\ o.f \in BOOLEAN /\ o.y \in BOOLEAN /\ o.P \in BOOLEAN
             /\ o.password \in Seq(Chars) /\ Len(o.password) < Capacity
  <2>1. /\ o.f \in BOOLEAN /\ o.y \in BOOLEAN /\ o.P \in BOOLEAN
        /\ o.password \in Passwords
    BY DEF CommandLines
  <2>2. PICK n \in 0 .. Capacity - 1 : o.password \in [1 .. n -> Chars]
    BY <2>1 DEF Passwords
  <2>3. o.password \in Seq(Chars) /\ Len(o.password) = n
    BY <2>2
  <2> QED
    BY <2>1, <2>2, <2>3
<1>1. Init => TypeOK
  <2> SUFFICES ASSUME Init PROVE TypeOK
    OBVIOUS
  <2>1. PICK o \in CommandLines :
           /\ HaveFingerprint = o.f /\ AcceptAnyHostKey = o.y
           /\ HavePassword = o.P /\ Password = o.password
           /\ complete = IF o.P THEN {o.password} ELSE {}
    BY DEF Init
  <2>2. /\ HaveFingerprint \in BOOLEAN /\ AcceptAnyHostKey \in BOOLEAN
        /\ HavePassword \in BOOLEAN
    BY <1>0, <2>1, Zenon
  <2>3. Password \in Seq(Chars) /\ Len(Password) < Capacity /\ complete \subseteq Seq(Chars)
    BY <1>0, <2>1
  <2>4. /\ HostKeyChecked \in BOOLEAN /\ HostKeyAccepted \in BOOLEAN
        /\ PasswordPrompted \in BOOLEAN /\ agreed \in BOOLEAN
    BY Zenon DEF Init
  <2>5. /\ offered \in HostKeys /\ runs \in 1 .. MaxRuns
        /\ questions \in Nat /\ prompts \in Nat
    BY DEF Init
  <2>6. /\ pc \in {"library", "confirm", "password"}
        /\ judged \subseteq HostKeys /\ confirmed \subseteq HostKeys
        /\ released \subseteq Seq(Chars)
    BY DEF Init
  <2> QED
    BY <2>2, <2>3, <2>4, <2>5, <2>6, Zenon DEF TypeOK
<1>2. TypeOK /\ [Next]_vars => TypeOK'
  <2> SUFFICES ASSUME TypeOK, [Next]_vars PROVE TypeOK'
    OBVIOUS
  <2> USE DEF TypeOK, options, secrets, auth, library, history
  <2>1. CASE HostKeyUnusable
    BY <2>1 DEF HostKeyUnusable, Return
  <2>2. CASE HostKeyCached
    BY <2>2 DEF HostKeyCached, Return, CachedResult
  <2>3. CASE HostKeyPinned
    BY <2>3 DEF HostKeyPinned, Judge, Return
  <2>4. CASE HostKeyAny
    BY <2>4 DEF HostKeyAny, Judge, Return
  <2>5. CASE HostKeyAsk
    BY <2>5 DEF HostKeyAsk
  <2>6. CASE ReadConfirmation
    BY <2>6 DEF ReadConfirmation, Return
  <2>7. CASE UserAuthPrompts
    BY <2>7 DEF UserAuthPrompts
  <2>8. CASE UserAuthSupplies
    BY <2>8 DEF UserAuthSupplies, Release
  <2>9. CASE TypeChar
    BY <2>9 DEF TypeChar, Room
  <2>10. CASE Backspace
    BY <2>10 DEF Backspace
  <2>11. CASE Enter
    BY <2>11 DEF Enter, Release
  <2>12. CASE ConsoleFails
    BY <2>12 DEF ConsoleFails
  <2>13. CASE RunAgain
    <3>1. PICK o \in CommandLines :
             /\ HaveFingerprint' = o.f /\ AcceptAnyHostKey' = o.y
             /\ HavePassword' = o.P /\ Password' = o.password
             /\ complete' = IF o.P THEN {o.password} ELSE {}
      BY <2>13 DEF RunAgain
    <3>2. /\ HaveFingerprint' \in BOOLEAN /\ AcceptAnyHostKey' \in BOOLEAN
          /\ HavePassword' \in BOOLEAN
      BY <1>0, <3>1, Zenon
    <3>3. /\ Password' \in Seq(Chars) /\ Len(Password') < Capacity
          /\ complete' \subseteq Seq(Chars)
      BY <1>0, <3>1
    <3>4. /\ HostKeyChecked' \in BOOLEAN /\ HostKeyAccepted' \in BOOLEAN
          /\ PasswordPrompted' \in BOOLEAN /\ agreed' \in BOOLEAN
      BY <2>13, Zenon DEF RunAgain
    <3>5. /\ offered' \in HostKeys /\ runs' \in 1 .. MaxRuns
          /\ questions' \in Nat /\ prompts' \in Nat
      BY <2>13 DEF RunAgain
    <3>6. /\ pc' \in {"library", "confirm", "password"}
          /\ judged' \subseteq HostKeys /\ confirmed' \subseteq HostKeys
          /\ released' \subseteq Seq(Chars)
      BY <2>13 DEF RunAgain
    <3> QED
      BY <3>2, <3>3, <3>4, <3>5, <3>6, Zenon
  <2>14. CASE UNCHANGED vars
    BY <2>14 DEF vars
  <2> QED
    BY <2>1, <2>2, <2>3, <2>4, <2>5, <2>6, <2>7, <2>8, <2>9, <2>10, <2>11, <2>12,
       <2>13, <2>14 DEF Next, HostKeyCallback, UserAuthCallback
<1> QED
  BY <1>1, <1>2, PTL DEF Spec
-----------------------------------------------------------------------------
(***************************************************************************)
(* The host key.                                                           *)
(***************************************************************************)

\* Every step of Auth keeps the facts about the host key decision.
LEMMA KeyStep == TypeOK /\ KeyInv /\ [Next]_vars => KeyInv'
<1> SUFFICES ASSUME TypeOK, KeyInv, [Next]_vars PROVE KeyInv'
  OBVIOUS
<1> USE DEF KeyInv, Trusted, options, secrets, auth, library, history
<1>1. CASE HostKeyUnusable
  BY <1>1 DEF HostKeyUnusable, Return
<1>2. CASE HostKeyCached
  BY <1>2 DEF HostKeyCached, Return, CachedResult
<1>3. CASE HostKeyPinned
  BY <1>3 DEF HostKeyPinned, Judge, Return, AlreadyJudged
<1>4. CASE HostKeyAny
  BY <1>4 DEF HostKeyAny, Judge, Return, AlreadyJudged
<1>5. CASE HostKeyAsk
  BY <1>5 DEF HostKeyAsk, AlreadyJudged
<1>6. CASE ReadConfirmation
  BY <1>6 DEF ReadConfirmation, Return
<1>7. CASE UserAuthPrompts
  BY <1>7 DEF UserAuthPrompts, MustPrompt
<1>8. CASE UserAuthSupplies
  BY <1>8 DEF UserAuthSupplies, Release
<1>9. CASE TypeChar
  BY <1>9 DEF TypeChar
<1>10. CASE Backspace
  BY <1>10 DEF Backspace
<1>11. CASE Enter
  BY <1>11 DEF Enter, Release
<1>12. CASE ConsoleFails
  BY <1>12 DEF ConsoleFails
<1>13. CASE RunAgain
  BY <1>13 DEF RunAgain
<1>14. CASE UNCHANGED vars
  BY <1>14 DEF vars
<1> QED
  BY <1>1, <1>2, <1>3, <1>4, <1>5, <1>6, <1>7, <1>8, <1>9, <1>10, <1>11, <1>12,
     <1>13, <1>14 DEF Next, HostKeyCallback, UserAuthCallback

\* The facts about the host key hold in every state.
LEMMA KeyInvariance == Spec => [](TypeOK /\ KeyInv)
<1>1. Init => KeyInv
  BY DEF Init, KeyInv
<1> QED
  BY <1>1, TypeCorrect, KeyStep, PTL DEF Spec

\* WolfSshUserAuthCallback hands over a password only after the host key of this
\* run was judged and accepted, for any number of keys and key exchanges.
THEOREM TrustCorrect == Spec => []TrustBeforePassword
<1>1. KeyInv => TrustBeforePassword
  BY DEF KeyInv, Trusted, TrustBeforePassword
<1> QED
  BY <1>1, KeyInvariance, PTL

\* No later key exchange changes the decision of WolfSshHostKeyCallback.
THEOREM DecisionCorrect == Spec => DecisionFinal
<1>1. TypeOK /\ KeyInv /\ [Next]_vars =>
        [HostKeyChecked /\ pc # "confirm" /\ runs' = runs
           => HostKeyChecked' /\ HostKeyAccepted' = HostKeyAccepted]_vars
  <2> SUFFICES ASSUME TypeOK, Next, HostKeyChecked, pc # "confirm", runs' = runs
               PROVE  HostKeyChecked' /\ HostKeyAccepted' = HostKeyAccepted
    OBVIOUS
  <2> USE DEF AlreadyJudged, auth
  <2>1. CASE HostKeyCallback
    BY <2>1 DEF HostKeyCallback, HostKeyUnusable, HostKeyCached, HostKeyPinned,
                HostKeyAny, HostKeyAsk, ReadConfirmation
  <2>2. CASE UserAuthCallback
    BY <2>2 DEF UserAuthCallback, UserAuthPrompts, UserAuthSupplies, TypeChar,
                Backspace, Enter, ConsoleFails
  <2>3. CASE RunAgain
    BY <2>3 DEF RunAgain, TypeOK
  <2> QED
    BY <2>1, <2>2, <2>3 DEF Next
<1> QED
  BY <1>1, KeyInvariance, PTL DEF Spec, DecisionFinal

-----------------------------------------------------------------------------
(***************************************************************************)
(* The password.                                                           *)
(***************************************************************************)

\* Every step of Auth keeps the facts about the password.
LEMMA PasswordStep == TypeOK /\ KeyInv /\ PasswordInv /\ [Next]_vars => PasswordInv'
<1> SUFFICES ASSUME TypeOK, KeyInv, PasswordInv, [Next]_vars PROVE PasswordInv'
  OBVIOUS
<1> USE DEF PasswordInv, options, secrets, auth, library, history
<1>1. CASE HostKeyCallback
  <2>1. UNCHANGED <<HavePassword, Password, PasswordPrompted, complete, released,
                    prompts>>
    BY <1>1 DEF HostKeyCallback, HostKeyUnusable, HostKeyCached, HostKeyPinned,
                HostKeyAny, HostKeyAsk, ReadConfirmation, Judge
  <2> QED
    BY <2>1
<1>2. CASE UserAuthPrompts
  BY <1>2 DEF UserAuthPrompts, MustPrompt, TypeOK
<1>3. CASE UserAuthSupplies
  BY <1>3 DEF UserAuthSupplies, Release, HasPassword
<1>4. CASE TypeChar
  BY <1>4 DEF TypeChar, KeyInv
<1>5. CASE Backspace
  BY <1>5 DEF Backspace, KeyInv
<1>6. CASE Enter
  BY <1>6 DEF Enter, Release
<1>7. CASE ConsoleFails
  BY <1>7 DEF ConsoleFails
<1>8. CASE RunAgain
  BY <1>8 DEF RunAgain
<1>9. CASE UNCHANGED vars
  BY <1>9 DEF vars
<1> QED
  BY <1>1, <1>2, <1>3, <1>4, <1>5, <1>6, <1>7, <1>8, <1>9
     DEF Next, UserAuthCallback

\* The facts about the password hold in every state.
LEMMA PasswordInvariance == Spec => [](KeyInv /\ PasswordInv)
<1>1. Init => PasswordInv
  BY DEF Init, PasswordInv
<1> QED
  BY <1>1, KeyInvariance, PasswordStep, PTL DEF Spec

\* A password that a console error broke off is never handed to wolfSSH.
THEOREM NoPartialCorrect == Spec => []NoPartialPassword
<1>1. PasswordInv => NoPartialPassword
  BY DEF PasswordInv, NoPartialPassword
<1> QED
  BY <1>1, PasswordInvariance, PTL

\* A run asks about the host key at most once and for a password at most once.
THEOREM AskedOnceCorrect == Spec => []AskedOnce
<1>1. KeyInv /\ PasswordInv => AskedOnce
  BY DEF KeyInv, PasswordInv, AskedOnce
<1> QED
  BY <1>1, PasswordInvariance, PTL
=============================================================================
