---------------------------- MODULE SessionProof ----------------------------
(***************************************************************************)
(* Proofs about Session, for every limit of its loops, every length of     *)
(* buffer and number of keys, and whatever wolfSSH answers.                *)
(***************************************************************************)
EXTENDS Session, SequenceTheorems, TLAPS

-----------------------------------------------------------------------------
(***************************************************************************)
(* The inductive invariant.                                                *)
(***************************************************************************)

InSession == {"Round", "Read", "Drain", "Replies", "Keys", "Send"}

\* What UefiMain has acquired before each of its steps.
WithTcp     == {"wolfSSH", "socket"}
WithContext == WithTcp \cup {"Context"}
WithSsh     == WithContext \cup {"Ssh"}

Possession ==
    /\ pc \in {"Parse", "Random", "Init"} => held = {} /\ ~WolfSshInitialized
    /\ pc = "Tcp" => held = {"wolfSSH"}
    /\ pc = "Context" => held = WithTcp
    /\ pc = "Ssh" => held = WithContext
    /\ pc \in {"Username", "Channel", "Connect", "Create"} => held = WithSsh
    /\ pc \in InSession => held = WithSsh \cup {"Terminal"}
    /\ pc \in {"Cleanup", "Free"} => held \in {{"wolfSSH"}, WithTcp, WithContext, WithSsh}
    /\ pc = "Cleanup" /\ "Ssh" \notin held => Retry = 0
    /\ pc = "Returned" => held = {} /\ (WolfSshInitialized => ~secret)

\* What wolfSSH has accepted; a SendAll that failed is the last of its session.
Output ==
    /\ OutputInOrder
    /\ Length =< issued
    /\ failure.kind = "send" =>
         pc \in {"Round", "Cleanup", "Free", "Returned"} /\ (pc = "Round" => Finished)

\* A failure with no reply left to send stands until UefiMain returns it; after a
\* failed drain the burst goes on, and what it queues is counted.
Reported ==
    /\ failure.kind \in {"receive", "drain", "send", "key"} /\ failure.pending = 0 =>
         /\ Status # "SUCCESS"
         /\ pc \in {"Read", "Drain"} => failure.kind = "drain"
         /\ pc \in {"Read", "Drain", "Replies", "Round", "Cleanup", "Free", "Returned"}
         /\ pc \in {"Read", "Drain", "Replies", "Round"} => Finished
         /\ pc = "Replies" => reply = 0
    /\ failure.kind = "drain" =>
         /\ pc \in {"Read", "Drain", "Replies", "Send", "Round", "Cleanup", "Free",
                    "Returned"}
         /\ pc \in InSession => Finished
         /\ pc \in {"Read", "Drain"} => failure.pending = reply /\ Status # "SUCCESS"
         /\ pc = "Send" => sender = "reply"
    /\ failure.kind \in {"send", "key"} => failure.pending = 0
    /\ pc = "Keys" \/ (pc = "Send" /\ sender = "key") => reply = 0

-----------------------------------------------------------------------------
(***************************************************************************)
(* Types.                                                                  *)
(***************************************************************************)

\* TypeOK in two parts, for the provers.
FlagsOK == secret \in BOOLEAN /\ WolfSshInitialized \in BOOLEAN
             /\ Activity \in BOOLEAN /\ Finished \in BOOLEAN
ValuesOK ==
    /\ pc \in Points /\ Status \in Statuses
    /\ held \subseteq Resources
    /\ err \in Errors \cup {"none"} /\ Retry \in 0 .. RetryLimit
    /\ ReadBurst \in 0 .. BurstLimit
    /\ ext \in 0 .. MaxExtended /\ reply \in 0 .. MaxBuffer
    /\ sender \in {"reply", "key"}
    /\ Length \in 0 .. MaxBuffer /\ Offset \in 0 .. Length
    /\ keyboard \in Seq({"text", "exit", "unmapped"}) /\ pressed \in 0 .. MaxKeys
    /\ issued \in Nat /\ accepted \in Seq(Nat)
    /\ failure \in Failures

IInv == FlagsOK /\ ValuesOK /\ Possession /\ Output /\ Reported

\* The two parts are all of TypeOK.
LEMMA TypeParts == TypeOK <=> FlagsOK /\ ValuesOK
BY DEF TypeOK, FlagsOK, ValuesOK

\* The tables of UefiMain's steps, spelled out.
LEMMA StepTable ==
    /\ Steps = {"Parse", "Random", "Init", "Tcp", "Context", "Ssh", "Username", "Channel"}
    /\ NextStep["Parse"] = "Random" /\ NextStep["Random"] = "Init"
    /\ NextStep["Init"] = "Tcp" /\ NextStep["Tcp"] = "Context"
    /\ NextStep["Context"] = "Ssh" /\ NextStep["Ssh"] = "Username"
    /\ NextStep["Username"] = "Channel" /\ NextStep["Channel"] = "Connect"
    /\ Acquires["Parse"] = {} /\ Acquires["Random"] = {} /\ Acquires["Init"] = {"wolfSSH"}
    /\ Acquires["Tcp"] = {"socket"} /\ Acquires["Context"] = {"Context"}
    /\ Acquires["Ssh"] = {"Ssh"} /\ Acquires["Username"] = {} /\ Acquires["Channel"] = {}
<1>1. /\ Steps = {"Parse", "Random", "Init", "Tcp", "Context", "Ssh", "Username", "Channel"}
      /\ NextStep["Parse"] = "Random" /\ NextStep["Random"] = "Init"
      /\ NextStep["Init"] = "Tcp" /\ NextStep["Tcp"] = "Context"
      /\ NextStep["Context"] = "Ssh" /\ NextStep["Ssh"] = "Username"
      /\ NextStep["Username"] = "Channel" /\ NextStep["Channel"] = "Connect"
  BY DEF Steps, NextStep
<1>2. /\ Acquires["Parse"] = {} /\ Acquires["Random"] = {} /\ Acquires["Init"] = {"wolfSSH"}
      /\ Acquires["Tcp"] = {"socket"} /\ Acquires["Context"] = {"Context"}
      /\ Acquires["Ssh"] = {"Ssh"} /\ Acquires["Username"] = {} /\ Acquires["Channel"] = {}
  BY DEF Acquires
<1> QED
  BY <1>1, <1>2

\* ... and no step fails with success.
LEMMA FailureTable ==
    ASSUME NEW s \in Steps
    PROVE  FailsWith[s] \subseteq Statuses \ {"SUCCESS"}
BY StepTable DEF FailsWith, Statuses

\* What follows a failed drain in its burst changes the history of that failure only.
LEMMA AfterDrain ==
    ASSUME ValuesOK, reply' \in 0 .. MaxBuffer
    PROVE  /\ FedAfterDrain => /\ failure' \in Failures /\ failure'.kind = failure.kind
                               /\ failure.kind = "drain" => failure'.pending = reply'
                               /\ failure.kind # "drain" => failure' = failure
           /\ DrainedAgain => /\ failure' \in Failures
                              /\ failure.kind = "drain" => failure'.kind = "redrained"
                              /\ failure.kind # "drain" => failure' = failure
<1>1. CASE failure.kind = "drain"
  BY <1>1 DEF ValuesOK, Failures, FedAfterDrain, DrainedAgain
<1>2. CASE failure.kind # "drain"
  BY <1>2 DEF ValuesOK, Failures, FedAfterDrain, DrainedAgain
<1> QED
  BY <1>1, <1>2

\* Every step keeps the Boolean variables Boolean.
LEMMA FlagsStep == FlagsOK /\ [Next]_vars => FlagsOK'
<1> SUFFICES ASSUME FlagsOK, [Next]_vars PROVE FlagsOK'
  OBVIOUS
<1> USE DEF FlagsOK, loopVars, mainVars
<1>1. CASE StepSucceeds
  BY <1>1, Zenon DEF StepSucceeds, Parsed
<1>2. CASE StepFails
  BY <1>2, Zenon DEF StepFails, Parsed
<1>3. CASE Help
  BY <1>3, Zenon DEF Help
<1>4. CASE SelfTest
  BY <1>4, Zenon DEF SelfTest
<1>5. CASE ConnectWolfSsh
  BY <1>5, Zenon DEF ConnectWolfSsh
<1>6. CASE BestEffortShutdown
  BY <1>6, Zenon DEF BestEffortShutdown
<1>7. CASE Release
  BY <1>7, Zenon DEF Release
<1>8. CASE CreateTerminal
  BY <1>8, Zenon DEF CreateTerminal
<1>9. CASE Round
  BY <1>9, Zenon DEF Round
<1>10. CASE SessionEnds
  BY <1>10, Zenon DEF SessionEnds
<1>11. CASE ReadData
  BY <1>11, Zenon DEF ReadData
<1>12. CASE ReadExtended
  BY <1>12, Zenon DEF ReadExtended
<1>13. CASE ReadEnds
  BY <1>13, Zenon DEF ReadEnds
<1>14. CASE ReadRekeys
  BY <1>14, Zenon DEF ReadRekeys
<1>15. CASE ReadIdle
  BY <1>15, Zenon DEF ReadIdle
<1>16. CASE ReadFails
  BY <1>16, Zenon DEF ReadFails
<1>17. CASE BurstEnds
  BY <1>17, Zenon DEF BurstEnds
<1>18. CASE DrainExtendedData
  BY <1>18, Zenon DEF DrainExtendedData
<1>19. CASE TakeResponse
  BY <1>19, Zenon DEF TakeResponse
<1>20. CASE NoKey
  BY <1>20, Zenon DEF NoKey
<1>21. CASE KeyFails
  BY <1>21, Zenon DEF KeyFails
<1>22. CASE LocalExit
  BY <1>22, Zenon DEF LocalExit
<1>23. CASE SendKey
  BY <1>23, Zenon DEF SendKey
<1>24. CASE SendPart
  BY <1>24, Zenon DEF SendPart
<1>25. CASE SendAgain
  BY <1>25, Zenon DEF SendAgain
<1>26. CASE SendFails
  BY <1>26, Zenon DEF SendFails
<1>27. CASE SendDone
  BY <1>27, Zenon DEF SendDone
<1>28. CASE Press
  BY <1>28, Zenon DEF Press
<1>29. CASE UNCHANGED vars
  BY <1>29, Zenon DEF vars
<1> QED
  BY <1>1, <1>2, <1>3, <1>4, <1>5, <1>6, <1>7, <1>8, <1>9, <1>10, <1>11, <1>12,
     <1>13, <1>14, <1>15, <1>16, <1>17, <1>18, <1>19, <1>20, <1>21, <1>22, <1>23,
     <1>24, <1>25, <1>26, <1>27, <1>28, <1>29
  DEF Next, Program, Main, Reads, Keys, SendAll

\* SendPart: wolfSSH takes the next n bytes of the buffer.
LEMMA Accept ==
    ASSUME ValuesOK, Length =< issued, SendPart
    PROVE  \E n \in 1 .. Length - Offset :
             /\ accepted' \in Seq(Nat)
             /\ Len(accepted') = Len(accepted) + n
             /\ \A i \in 1 .. Len(accepted) : accepted'[i] = accepted[i]
             /\ \A i \in 1 .. n :
                   accepted'[Len(accepted) + i] = issued - Length + Offset + i
             /\ Offset' = Offset + n
<1> USE LimitAssumption DEF ValuesOK
<1>1. PICK n \in 1 .. Length - Offset :
        /\ accepted' = accepted \o [i \in 1 .. n |-> issued - Length + Offset + i]
        /\ Offset' = Offset + n
  BY DEF SendPart, Resume
<1> DEFINE part == [i \in 1 .. n |-> issued - Length + Offset + i]
<1>2. part \in Seq(Nat) /\ Len(part) = n
  <2>1. \A i \in 1 .. n : issued - Length + Offset + i \in Nat
    OBVIOUS
  <2> QED
    BY <2>1
<1>3. \A i \in 1 .. n : part[i] = issued - Length + Offset + i
  OBVIOUS
<1>4. accepted' = accepted \o part
  BY <1>1
<1> HIDE DEF part
<1>5. /\ accepted \o part \in Seq(Nat)
      /\ Len(accepted \o part) = Len(accepted) + n
      /\ \A i \in 1 .. Len(accepted) + n :
            (accepted \o part)[i] = IF i <= Len(accepted) THEN accepted[i]
                                    ELSE part[i - Len(accepted)]
  BY <1>2, ConcatProperties
<1>6. Len(accepted) \in Nat /\ n \in Nat
  OBVIOUS
<1> QED
  BY <1>1, <1>3, <1>4, <1>5, <1>6

\* Every step keeps the other types: counters stay within the limits of their loops.
LEMMA ValuesStep ==
    ASSUME ValuesOK, Possession, Length =< issued, [Next]_vars
    PROVE  ValuesOK'
<1> USE LimitAssumption DEF ValuesOK, RetryLimit, Points, Statuses, Errors, Ends, Resources,
        loopVars, sendVars, userVars, mainVars
<1>1. CASE StepSucceeds
  <2>1. held' \subseteq Resources
    BY <1>1, StepTable DEF StepSucceeds
  <2>2. pc' \in Points /\ Retry' \in 0 .. RetryLimit'
    BY <1>1, StepTable DEF StepSucceeds
  <2> QED
    BY <1>1, <2>1, <2>2 DEF StepSucceeds
<1>2. CASE StepFails
  BY <1>2, StepTable, FailureTable DEF StepFails, AfterFailure
<1>3. CASE Help
  BY <1>3, StepTable DEF Help
<1>4. CASE SelfTest
  BY <1>4, StepTable DEF SelfTest
<1>5. CASE ConnectWolfSsh
  BY <1>5 DEF ConnectWolfSsh, NextRetry
<1>6. CASE BestEffortShutdown
  BY <1>6 DEF BestEffortShutdown, NextRetry, NextToFree
<1>7. CASE Release
  <2>1. held' \subseteq Resources
    BY <1>7 DEF Release
  <2>2. pc' \in Points /\ Retry' \in 0 .. RetryLimit'
    BY <1>7 DEF Release, NextToFree, Possession
  <2> QED
    BY <1>7, <2>1, <2>2 DEF Release
<1>8. CASE CreateTerminal
  <2>1. held' \subseteq Resources
    BY <1>8 DEF CreateTerminal
  <2>2. pc' \in Points /\ Retry' \in 0 .. RetryLimit'
    BY <1>8 DEF CreateTerminal
  <2> QED
    BY <1>8, <2>1, <2>2 DEF CreateTerminal
<1>9. CASE Round
  BY <1>9 DEF Round
<1>10. CASE SessionEnds
  BY <1>10 DEF SessionEnds
<1>11. CASE ReadData
  <2>1. reply' \in 0 .. MaxBuffer
    BY <1>11 DEF ReadData, Feed
  <2>2. failure' \in Failures
    BY <1>11, <2>1, AfterDrain DEF ReadData
  <2> QED
    BY <1>11, <2>1, <2>2 DEF ReadData, Reading, CountedRead
<1>12. CASE ReadExtended
  BY <1>12 DEF ReadExtended, Reading, CountedRead, GetError
<1>13. CASE ReadEnds
  BY <1>13 DEF ReadEnds, Failures, Reading, GetError
<1>14. CASE ReadRekeys
  BY <1>14 DEF ReadRekeys, Reading, CountedRead
<1>15. CASE ReadIdle
  BY <1>15 DEF ReadIdle, Reading, GetError
<1>16. CASE ReadFails
  BY <1>16 DEF ReadFails, Failures, Reading
<1>17. CASE BurstEnds
  BY <1>17 DEF BurstEnds
<1>18. CASE DrainExtendedData
  <2>1. reply' \in 0 .. MaxBuffer
    BY <1>18 DEF DrainExtendedData, Feed
  <2>2. failure' \in Failures
    BY <1>18, <2>1, AfterDrain DEF DrainExtendedData, Failures
  <2> QED
    BY <1>18, <2>1, <2>2 DEF DrainExtendedData, GetError
<1>19. CASE TakeResponse
  <2>1. CASE reply > 0
    BY <1>19, <2>1 DEF TakeResponse, Issue
  <2>2. CASE ~(reply > 0)
    BY <1>19, <2>2 DEF TakeResponse, AfterReplies
  <2> QED
    BY <2>1, <2>2
<1>20. CASE NoKey
  <2>1. keyboard' \in Seq({"text", "exit", "unmapped"})
    <3>1. CASE keyboard = << >>
      BY <1>20, <3>1 DEF NoKey
    <3>2. CASE keyboard # << >>
      <4>1. keyboard' = Tail(keyboard)
        BY <1>20, <3>2, Zenon DEF NoKey
      <4> QED
        BY <3>2, <4>1, HeadTailProperties
    <3> QED
      BY <3>1, <3>2
  <2> QED
    BY <1>20, <2>1 DEF NoKey
<1>21. CASE KeyFails
  BY <1>21 DEF KeyFails, Failures
<1>22. CASE LocalExit
  BY <1>22 DEF LocalExit
<1>23. CASE SendKey
  BY <1>23 DEF SendKey, Issue
<1>24. CASE SendPart
  <2>1. PICK n \in 1 .. Length - Offset : accepted' \in Seq(Nat) /\ Offset' = Offset + n
    BY <1>24, Accept
  <2> QED
    BY <1>24, <2>1 DEF SendPart
<1>25. CASE SendAgain
  BY <1>25 DEF SendAgain, GivesUp, NextRetry, GetError
<1>26. CASE SendFails
  BY <1>26 DEF SendFails, GetError, Failures
<1>27. CASE SendDone
  BY <1>27 DEF SendDone
<1>28. CASE Press
  BY <1>28 DEF Press
<1>29. CASE UNCHANGED vars
  BY <1>29 DEF vars
<1> QED
  BY <1>1, <1>2, <1>3, <1>4, <1>5, <1>6, <1>7, <1>8, <1>9, <1>10, <1>11, <1>12,
     <1>13, <1>14, <1>15, <1>16, <1>17, <1>18, <1>19, <1>20, <1>21, <1>22, <1>23,
     <1>24, <1>25, <1>26, <1>27, <1>28, <1>29
  DEF Next, Program, Main, Reads, Keys, SendAll

\* Every step acquires and releases in order.
LEMMA PossessionStep ==
    ASSUME ValuesOK, Possession, [Next]_vars
    PROVE  Possession'
<1> USE LimitAssumption DEF Possession, InSession, WithTcp, WithContext, WithSsh, loopVars,
        sendVars, userVars, mainVars
<1>1. CASE StepSucceeds
  BY <1>1, StepTable DEF StepSucceeds, Parsed
<1>2. CASE StepFails
  BY <1>2, StepTable DEF StepFails, AfterFailure, Parsed, ValuesOK, RetryLimit
<1>3. CASE Help
  BY <1>3, StepTable DEF Help
<1>4. CASE SelfTest
  BY <1>4, StepTable DEF SelfTest, ValuesOK, RetryLimit
<1>5. CASE ConnectWolfSsh
  BY <1>5 DEF ConnectWolfSsh, NextRetry
<1>6. CASE BestEffortShutdown
  BY <1>6 DEF BestEffortShutdown, NextRetry, NextToFree
<1>7. CASE Release
  BY <1>7 DEF Release, NextToFree
<1>8. CASE CreateTerminal
  BY <1>8 DEF CreateTerminal, ValuesOK, RetryLimit
<1>9. CASE Round
  BY <1>9 DEF Round
<1>10. CASE SessionEnds
  BY <1>10 DEF SessionEnds, ValuesOK, RetryLimit
<1>11. CASE ReadData
  BY <1>11 DEF ReadData, FedAfterDrain, Reading, CountedRead, Feed
<1>12. CASE ReadExtended
  BY <1>12 DEF ReadExtended, Reading, CountedRead, GetError
<1>13. CASE ReadEnds
  BY <1>13 DEF ReadEnds, Reading, GetError
<1>14. CASE ReadRekeys
  BY <1>14 DEF ReadRekeys, Reading, CountedRead
<1>15. CASE ReadIdle
  BY <1>15 DEF ReadIdle, Reading, GetError
<1>16. CASE ReadFails
  BY <1>16 DEF ReadFails, Reading
<1>17. CASE BurstEnds
  BY <1>17 DEF BurstEnds
<1>18. CASE DrainExtendedData
  BY <1>18 DEF DrainExtendedData, FedAfterDrain, DrainedAgain, Feed, GetError
<1>19. CASE TakeResponse
  BY <1>19 DEF TakeResponse, Issue, AfterReplies
<1>20. CASE NoKey
  BY <1>20 DEF NoKey
<1>21. CASE KeyFails
  BY <1>21 DEF KeyFails
<1>22. CASE LocalExit
  BY <1>22 DEF LocalExit
<1>23. CASE SendKey
  BY <1>23 DEF SendKey, Issue
<1>24. CASE SendPart
  BY <1>24 DEF SendPart
<1>25. CASE SendAgain
  BY <1>25 DEF SendAgain, GivesUp, NextRetry, GetError
<1>26. CASE SendFails
  BY <1>26 DEF SendFails, GetError
<1>27. CASE SendDone
  BY <1>27 DEF SendDone
<1>28. CASE Press
  BY <1>28 DEF Press
<1>29. CASE UNCHANGED vars
  BY <1>29 DEF vars
<1> QED
  BY <1>1, <1>2, <1>3, <1>4, <1>5, <1>6, <1>7, <1>8, <1>9, <1>10, <1>11, <1>12,
     <1>13, <1>14, <1>15, <1>16, <1>17, <1>18, <1>19, <1>20, <1>21, <1>22, <1>23,
     <1>24, <1>25, <1>26, <1>27, <1>28, <1>29
  DEF Next, Program, Main, Reads, Keys, SendAll

\* Every step hands wolfSSH the next bytes, or none.
LEMMA OutputStep ==
    ASSUME ValuesOK, Output, [Next]_vars
    PROVE  Output'
<1> USE LimitAssumption DEF Output, OutputInOrder, loopVars, sendVars, userVars, mainVars
<1>1. CASE StepSucceeds
  BY <1>1, StepTable DEF StepSucceeds, Parsed, ValuesOK
<1>2. CASE StepFails
  BY <1>2, StepTable DEF StepFails, AfterFailure, Parsed, ValuesOK
<1>3. CASE Help
  BY <1>3, StepTable DEF Help, ValuesOK
<1>4. CASE SelfTest
  BY <1>4, StepTable DEF SelfTest, ValuesOK
<1>5. CASE ConnectWolfSsh
  BY <1>5 DEF ConnectWolfSsh, NextRetry, ValuesOK
<1>6. CASE BestEffortShutdown
  BY <1>6 DEF BestEffortShutdown, NextRetry, NextToFree, ValuesOK
<1>7. CASE Release
  BY <1>7 DEF Release, NextToFree, ValuesOK
<1>8. CASE CreateTerminal
  BY <1>8 DEF CreateTerminal, ValuesOK
<1>9. CASE Round
  BY <1>9 DEF Round, ValuesOK
<1>10. CASE SessionEnds
  BY <1>10 DEF SessionEnds, ValuesOK
<1>11. CASE ReadData
  BY <1>11 DEF ReadData, FedAfterDrain, Reading, CountedRead, Feed, ValuesOK
<1>12. CASE ReadExtended
  BY <1>12 DEF ReadExtended, Reading, CountedRead, GetError, ValuesOK
<1>13. CASE ReadEnds
  BY <1>13 DEF ReadEnds, Reading, GetError, ValuesOK
<1>14. CASE ReadRekeys
  BY <1>14 DEF ReadRekeys, Reading, CountedRead, ValuesOK
<1>15. CASE ReadIdle
  BY <1>15 DEF ReadIdle, Reading, GetError, ValuesOK
<1>16. CASE ReadFails
  BY <1>16 DEF ReadFails, Reading, ValuesOK
<1>17. CASE BurstEnds
  BY <1>17 DEF BurstEnds, ValuesOK
<1>18. CASE DrainExtendedData
  <2>1. reply' \in 0 .. MaxBuffer
    BY <1>18 DEF DrainExtendedData, Feed, ValuesOK
  <2>2. failure'.kind = "send" <=> failure.kind = "send"
    BY <1>18, <2>1, AfterDrain DEF DrainExtendedData
  <2> QED
    BY <1>18, <2>2 DEF DrainExtendedData, ValuesOK
<1>19. CASE TakeResponse
  BY <1>19 DEF TakeResponse, Issue, AfterReplies, ValuesOK
<1>20. CASE NoKey
  BY <1>20 DEF NoKey, ValuesOK
<1>21. CASE KeyFails
  BY <1>21 DEF KeyFails, ValuesOK
<1>22. CASE LocalExit
  BY <1>22 DEF LocalExit, ValuesOK
<1>23. CASE SendKey
  BY <1>23 DEF SendKey, Issue, ValuesOK
<1>24. CASE SendPart
  <2>1. PICK n \in 1 .. Length - Offset :
          /\ accepted' \in Seq(Nat)
          /\ Len(accepted') = Len(accepted) + n
          /\ \A i \in 1 .. Len(accepted) : accepted'[i] = accepted[i]
          /\ \A i \in 1 .. n :
                accepted'[Len(accepted) + i] = issued - Length + Offset + i
          /\ Offset' = Offset + n
    BY <1>24, Accept
  <2>2. Len(accepted) \in Nat /\ Len(accepted) = issued - Length + Offset
    BY <1>24 DEF SendPart, ValuesOK
  <2>3. ASSUME NEW i \in 1 .. Len(accepted')
        PROVE  accepted'[i] = i
    <3>1. CASE i \in 1 .. Len(accepted)
      BY <2>1, <3>1
    <3>2. CASE i \notin 1 .. Len(accepted)
      <4>1. i - Len(accepted) \in 1 .. n /\ i = Len(accepted) + (i - Len(accepted))
        BY <2>1, <2>2, <3>2
      <4> QED
        BY <2>1, <2>2, <4>1
    <3> QED
      BY <3>1, <3>2
  <2>4. Len(accepted') = issued' - Length' + Offset' /\ pc' = "Send"
    BY <1>24, <2>1, <2>2 DEF SendPart, ValuesOK
  <2> QED
    BY <1>24, <2>3, <2>4 DEF SendPart
<1>25. CASE SendAgain
  BY <1>25 DEF SendAgain, GivesUp, NextRetry, GetError, ValuesOK
<1>26. CASE SendFails
  BY <1>26 DEF SendFails, GetError, ValuesOK
<1>27. CASE SendDone
  BY <1>27 DEF SendDone, ValuesOK
<1>28. CASE Press
  BY <1>28 DEF Press, ValuesOK
<1>29. CASE UNCHANGED vars
  BY <1>29 DEF vars
<1> QED
  BY <1>1, <1>2, <1>3, <1>4, <1>5, <1>6, <1>7, <1>8, <1>9, <1>10, <1>11, <1>12,
     <1>13, <1>14, <1>15, <1>16, <1>17, <1>18, <1>19, <1>20, <1>21, <1>22, <1>23,
     <1>24, <1>25, <1>26, <1>27, <1>28, <1>29
  DEF Next, Program, Main, Reads, Keys, SendAll

\* A failure that counts is not forgotten by any step.
LEMMA ReportedStep ==
    ASSUME ValuesOK, Reported, [Next]_vars
    PROVE  Reported'
<1> USE LimitAssumption DEF Reported, InSession, loopVars, sendVars, userVars, mainVars
<1>1. CASE StepSucceeds
  BY <1>1, StepTable DEF StepSucceeds, Parsed
<1>2. CASE StepFails
  BY <1>2, StepTable, FailureTable DEF StepFails, AfterFailure, Parsed
<1>3. CASE Help
  BY <1>3, StepTable DEF Help
<1>4. CASE SelfTest
  BY <1>4, StepTable DEF SelfTest
<1>5. CASE ConnectWolfSsh
  BY <1>5 DEF ConnectWolfSsh, NextRetry
<1>6. CASE BestEffortShutdown
  BY <1>6 DEF BestEffortShutdown, NextRetry, NextToFree
<1>7. CASE Release
  BY <1>7 DEF Release, NextToFree
<1>8. CASE CreateTerminal
  BY <1>8 DEF CreateTerminal
<1>9. CASE Round
  BY <1>9 DEF Round
<1>10. CASE SessionEnds
  BY <1>10 DEF SessionEnds
<1>11. CASE ReadData
  <2>1. reply' \in 0 .. MaxBuffer /\ reply' >= reply
    BY <1>11 DEF ReadData, Feed, ValuesOK
  <2> QED
    BY <1>11, <2>1, AfterDrain DEF ReadData, Reading, ValuesOK, Failures
<1>12. CASE ReadExtended
  BY <1>12 DEF ReadExtended, Reading, CountedRead, GetError
<1>13. CASE ReadEnds
  BY <1>13 DEF ReadEnds, Reading, GetError
<1>14. CASE ReadRekeys
  BY <1>14 DEF ReadRekeys, Reading, CountedRead
<1>15. CASE ReadIdle
  BY <1>15 DEF ReadIdle, Reading, GetError
<1>16. CASE ReadFails
  BY <1>16 DEF ReadFails, Reading
<1>17. CASE BurstEnds
  BY <1>17 DEF BurstEnds
<1>18. CASE DrainExtendedData
  <2>1. reply' \in 0 .. MaxBuffer /\ reply' >= reply
    BY <1>18 DEF DrainExtendedData, Feed, ValuesOK
  <2> QED
    BY <1>18, <2>1, AfterDrain DEF DrainExtendedData, ValuesOK, Failures
<1>19. CASE TakeResponse
  BY <1>19 DEF TakeResponse, Issue, AfterReplies
<1>20. CASE NoKey
  BY <1>20 DEF NoKey
<1>21. CASE KeyFails
  BY <1>21 DEF KeyFails
<1>22. CASE LocalExit
  BY <1>22 DEF LocalExit
<1>23. CASE SendKey
  BY <1>23 DEF SendKey, Issue
<1>24. CASE SendPart
  BY <1>24 DEF SendPart
<1>25. CASE SendAgain
  BY <1>25 DEF SendAgain, GivesUp, NextRetry, GetError
<1>26. CASE SendFails
  BY <1>26 DEF SendFails, GetError
<1>27. CASE SendDone
  BY <1>27 DEF SendDone
<1>28. CASE Press
  BY <1>28 DEF Press
<1>29. CASE UNCHANGED vars
  BY <1>29 DEF vars
<1> QED
  BY <1>1, <1>2, <1>3, <1>4, <1>5, <1>6, <1>7, <1>8, <1>9, <1>10, <1>11, <1>12,
     <1>13, <1>14, <1>15, <1>16, <1>17, <1>18, <1>19, <1>20, <1>21, <1>22, <1>23,
     <1>24, <1>25, <1>26, <1>27, <1>28, <1>29
  DEF Next, Program, Main, Reads, Keys, SendAll

-----------------------------------------------------------------------------
(***************************************************************************)
(* Results.                                                                *)
(***************************************************************************)

\* The inductive invariant holds throughout.
LEMMA Invariance == Spec => []IInv
<1>1. Init => IInv
  <2> SUFFICES ASSUME Init PROVE IInv
    OBVIOUS
  <2>1. FlagsOK
    BY Zenon DEF Init, FlagsOK
  <2>2. ValuesOK
    BY StepTable, LimitAssumption
    DEF Init, ValuesOK, Points, Statuses, Errors, Resources, RetryLimit, NoFailure,
        Failures
  <2>3. Possession
    BY DEF Init, Possession, InSession
  <2>4. Output
    BY DEF Init, Output, OutputInOrder, NoFailure
  <2>5. Reported
    BY DEF Init, Reported, NoFailure
  <2> QED
    BY <2>1, <2>2, <2>3, <2>4, <2>5 DEF IInv
<1>2. IInv /\ [Next]_vars => IInv'
  <2>1. Output => Length =< issued
    BY DEF Output
  <2> QED
    BY <2>1, FlagsStep, ValuesStep, PossessionStep, OutputStep, ReportedStep DEF IInv
<1> QED
  BY <1>1, <1>2, PTL DEF Spec

\* TypeOK is an invariant: no retry counter, burst or offset of Main.c passes its
\* limit, whatever the limits are.
THEOREM TypeCorrect == Spec => []TypeOK
<1>1. IInv => TypeOK
  BY TypeParts DEF IInv
<1> QED
  BY <1>1, Invariance, PTL

\* Replies and keys reach wolfSSH in order, no byte twice and none left out, through
\* all partial sends and retries of SendAll.
THEOREM SendsInOrder == Spec => []OutputInOrder
<1>1. IInv => OutputInOrder
  BY DEF IInv, Output
<1> QED
  BY <1>1, Invariance, PTL

\* UefiMain releases what it acquired, wherever it fails: lifetimes nest at every
\* step and nothing is left at the end, nor the password once wolfSSH was initialised.
THEOREM CleanupComplete == Spec => []ResourcesKept
<1>1. IInv => ResourcesKept
  <2> SUFFICES ASSUME ValuesOK, Possession PROVE LifetimesNest /\ LeavesNothing
    BY DEF IInv, ResourcesKept
  <2>1. LeavesNothing
    BY DEF LeavesNothing, Possession
  <2>2. LifetimesNest
    BY StepTable
    DEF LifetimesNest, Possession, ValuesOK, Points, InSession, WithTcp, WithContext, WithSsh
  <2> QED
    BY <2>1, <2>2
<1> QED
  BY <1>1, Invariance, PTL

\* A session that failed to receive, drain, send or read keys returns an error, but for
\* a lost connection, replies that were left to send and a later drain, as
\* FailureReported names them.
THEOREM FailuresReported == Spec => []FailureReported
<1>1. IInv => FailureReported
  BY DEF IInv, Reported, FailureReported, ValuesOK, Failures
<1> QED
  BY <1>1, Invariance, PTL
=============================================================================
