------------------------------ MODULE Tcp4Proof ------------------------------
(***************************************************************************)
(* Proofs about Tcp4, for every number of handles and bytes, every buffer  *)
(* size, every timeout and any firmware, whether it honours Cancel or not. *)
(***************************************************************************)
EXTENDS Tcp4, SequenceTheorems, TLAPS

-----------------------------------------------------------------------------
(***************************************************************************)
(* The inductive invariant: first the control, then the data.              *)
(***************************************************************************)

InWait == pc \in {"Wait", "Cancel", "CancelWait"}

\* The program is in WolfSshTcp4Connect.
Opened == \/ pc \in {"Acquire", "Configure", "ConnectEvent", "Connect",
                     "Connected"}
          \/ InWait /\ tok = "connect"
Fresh  == \/ pc \in {"Locate", "NextHandle"}
          \/ from = "open" /\ \/ Opened
                              \/ pc \in {"Post", "Posted", "Close", "CloseCall",
                                         "Reset", "Release"}
                              \/ InWait /\ tok # "tx"
\* ... and the firmware has not accepted a receive yet.
Pristine == Fresh /\ ~(pc = "Posted" /\ ~EFI_ERROR(Status))

\* Who may hold which token at which point.
Ownership ==
    /\ Opened => from = "open"
    /\ pc = "Wait" => tok # "rx"
    /\ pc \in {"Cancel", "CancelWait"} =>
         tok # "close" /\ (tok = "connect" => EFI_ERROR(Status))
    /\ pc \in {"Locate", "NextHandle", "Acquire", "Configure", "ConnectEvent",
               "Connect", "Release", "Returned"} => owned = {}
    /\ pc = "Connect" => "ConnectEvent" \notin Done
    /\ "connect" \in owned =>
         /\ Fresh /\ "ConnectEvent" \notin Done
         /\ InWait \/ pc \in {"Connected", "Close", "CloseCall", "Reset"}
         /\ pc = "Connected" => EFI_ERROR(Status)
    /\ RxActive \/ owned # {} \/ Streaming \/ InWait
         \/ pc \in {"Configure", "ConnectEvent", "Connect", "Connected", "Reset"}
       => {"Protocol", "TxEvent"} \subseteq ptr

\* The receive token: at the firmware, completed, or not posted.
RxState ==
    /\ Pristine => /\ ~RxActive /\ ~EndOfStream /\ RxLength = 0 /\ taken = 0
                   /\ "rx" \notin owned
    /\ Streaming =>
         /\ "rx" \in owned => RxPosted /\ "RxEvent" \notin Done
         /\ RxPosted => /\ RxLength = 0 /\ ~EndOfStream
                        /\ "rx" \in owned \/ "RxEvent" \in Done
         /\ pc \in {"Post", "Posted"} => ~RxActive /\ ~EndOfStream /\ RxLength = 0
         /\ EndOfStream => RxLength = 0
         /\ RxLength = 0 \/ RxOffset < RxLength

\* Where the next bytes of the stream are.
Conserved == Streaming =>
    Len(delivered) + (RxLength - RxOffset) + Unharvested = taken
Contents == Streaming =>
    /\ \A i \in 1 .. RxLength - RxOffset :
          RxBuffer[RxOffset + i] = Len(delivered) + i
    /\ \A i \in 1 .. Unharvested : RxBuffer[i] = Len(delivered) + i
InOrder == \A i \in 1 .. Len(delivered) : delivered[i] = i
NothingRead == Fresh => delivered = <<>> /\ ret = "none"

\* Everything the peer sent has been taken when the end is seen.
EndSeen ==
    /\ Streaming /\ RxPosted /\ "rx" \notin owned
         /\ tokStatus["rx"] = "CONNECTION_FIN" => fin /\ arrived = taken
    /\ Streaming /\ EndOfStream => fin /\ arrived = taken

StreamInv == Conserved /\ Contents /\ InOrder /\ NothingRead /\ EndSeen
               /\ EofIsFinal
IInv == TypeOK /\ Ownership /\ RxState /\ StreamInv

-----------------------------------------------------------------------------
(***************************************************************************)
(* Types.                                                                  *)
(***************************************************************************)

\* Every step keeps the Boolean fields of the socket Boolean.
LEMMA FlagsStep == FlagsOK /\ [Next]_vars => FlagsOK'
<1> SUFFICES ASSUME FlagsOK, [Next]_vars
             PROVE  FlagsOK'
  OBVIOUS
<1> USE DEF FlagsOK, ctlVars, rxVars, dataVars, streamVars, callerVars
<1>1. CASE LocateHandles
  BY <1>1, Zenon DEF LocateHandles
<1>2. CASE ConnectReturns
  BY <1>2, Zenon DEF ConnectReturns
<1>3. CASE MediaMissing
  BY <1>3, Zenon DEF MediaMissing
<1>4. CASE OpenOnController
  BY <1>4, Zenon DEF OpenOnController, ZeroSocket
<1>5. CASE Acquire
  BY <1>5, Zenon DEF Acquire
<1>6. CASE Configure
  BY <1>6, Zenon DEF Configure
<1>7. CASE CreateConnectEvent
  BY <1>7, Zenon DEF CreateConnectEvent
<1>8. CASE Connect
  BY <1>8, Zenon DEF Connect
<1>9. CASE Connected
  BY <1>9, Zenon DEF Connected
<1>10. CASE WaitForCompletion
  BY <1>10, Zenon DEF WaitForCompletion
<1>11. CASE CancelToken
  BY <1>11, Zenon DEF CancelToken
<1>12. CASE CancelWait
  BY <1>12, Zenon DEF CancelWait
<1>13. CASE CancelReturns
  BY <1>13, Zenon DEF CancelReturns
<1>14. CASE PostReceive
  BY <1>14, Zenon DEF PostReceive
<1>15. CASE Posted
  BY <1>15, Zenon DEF Posted
<1>16. CASE RecvCopies
  BY <1>16, Zenon DEF RecvCopies
<1>17. CASE RecvEmpty
  BY <1>17, Zenon DEF RecvEmpty, MustPost
<1>18. CASE Transmit
  BY <1>18, Zenon DEF Transmit
<1>19. CASE Transmitted
  BY <1>19, Zenon DEF Transmitted
<1>20. CASE Close
  BY <1>20, Zenon DEF Close
<1>21. CASE CloseCall
  BY <1>21, Zenon DEF CloseCall
<1>22. CASE Reset
  BY <1>22, Zenon DEF Reset
<1>23. CASE Release
  BY <1>23, Zenon DEF Release, ZeroSocket
<1>24. CASE Poll
  BY <1>24, Zenon DEF Poll, FinishReceive
<1>25. CASE RecvCallback
  BY <1>25, Zenon DEF RecvCallback, FinishReceive
<1>26. CASE SendCallback
  BY <1>26, Zenon DEF SendCallback
<1>27. CASE CloseFromMain
  BY <1>27, Zenon DEF CloseFromMain
<1>28. CASE FirmwareConnect
  BY <1>28, Zenon DEF FirmwareConnect
<1>29. ASSUME NEW n \in 0 .. RxCapacity, FirmwareReceive(n)
      PROVE  FlagsOK'
  BY <1>29, Zenon DEF FirmwareReceive
<1>30. CASE FirmwareReceiveFails
  BY <1>30, Zenon DEF FirmwareReceiveFails
<1>31. CASE FirmwareTransmit
  BY <1>31, Zenon DEF FirmwareTransmit
<1>32. CASE FirmwareClose
  BY <1>32, Zenon DEF FirmwareClose
<1>33. CASE PeerSends
  BY <1>33, Zenon DEF PeerSends
<1>34. CASE PeerCloses
  BY <1>34, Zenon DEF PeerCloses
<1>35. CASE PeerResets
  BY <1>35, Zenon DEF PeerResets
<1>36. CASE UNCHANGED vars
  BY <1>36, Zenon DEF vars
<1> QED
  BY <1>1, <1>2, <1>3, <1>4, <1>5, <1>6, <1>7, <1>8, <1>9, <1>10, <1>11,
       <1>12, <1>13, <1>14, <1>15, <1>16, <1>17, <1>18, <1>19, <1>20,
       <1>21, <1>22, <1>23, <1>24, <1>25, <1>26, <1>27, <1>28, <1>29,
       <1>30, <1>31, <1>32, <1>33, <1>34, <1>35, <1>36
  DEF Next, Program, Opening, Waiting, InCall, Closing, Calls, Firmware, Peer

\* A token that completes keeps the tokens and events well typed.
LEMMA NotifyType ==
    ASSUME TokenOK, NEW t \in Tokens, NEW s \in Statuses,
           NetworkNotify(t, s), UNCHANGED live
    PROVE  TokenOK'
<1>1. Done' \subseteq Events
  BY DEF TokenOK, NetworkNotify, EventOf, Events
<1>2. tokStatus' \in [Tokens -> Statuses] /\ owned' \subseteq Tokens
  BY DEF TokenOK, NetworkNotify
<1> QED
  BY <1>1, <1>2 DEF TokenOK

\* Every step of Tcp4.c, of the firmware and of the peer keeps the types: no
\* wait runs below zero and no read leaves RxBuffer, whatever the sizes.
THEOREM TypeCorrect == Spec => []TypeOK
<1> USE SizeAssumption, TimeAssumption
<1> USE DEF CtlOK, SocketOK, TokenOK, StreamOK, Points, Tokens, Callers, Statuses,
            Returns, Events
<1>1. Init => TypeOK
  <2> SUFFICES ASSUME Init PROVE TypeOK
    OBVIOUS
  <2>1. CtlOK
    BY DEF Init
  <2>2. SocketOK
    BY DEF Init
  <2>3. TokenOK
    BY DEF Init
  <2>4. StreamOK
    BY DEF Init
  <2>5. FlagsOK
    BY Zenon DEF Init, FlagsOK
  <2> QED
    BY <2>1, <2>2, <2>3, <2>4, <2>5 DEF TypeOK
<1>2. TypeOK /\ [Next]_vars => TypeOK'
  <2> SUFFICES ASSUME CtlOK, SocketOK, TokenOK, StreamOK, [Next]_vars
               PROVE  CtlOK' /\ SocketOK' /\ TokenOK' /\ StreamOK'
    BY FlagsStep DEF TypeOK
  <2> USE DEF ctlVars, rxVars, dataVars, streamVars, callerVars
  <2>1. CASE LocateHandles
    BY <2>1 DEF LocateHandles
  <2>2. CASE ConnectReturns
    BY <2>2 DEF ConnectReturns
  <2>3. CASE MediaMissing
    BY <2>3 DEF MediaMissing
  <2>4. CASE OpenOnController
    <3>1. CtlOK'
      BY <2>4 DEF OpenOnController, ZeroSocket
    <3>2. SocketOK'
      BY <2>4 DEF OpenOnController, ZeroSocket
    <3>3. TokenOK'
      BY <2>4 DEF OpenOnController, ZeroSocket
    <3>4. StreamOK'
      BY <2>4 DEF OpenOnController, ZeroSocket
    <3> QED
      BY <3>1, <3>2, <3>3, <3>4
  <2>5. CASE Acquire
    <3>1. CtlOK'
      BY <2>5 DEF Acquire, NextPointer
    <3>2. SocketOK'
      BY <2>5 DEF Acquire, NextPointer
    <3>3. TokenOK'
      BY <2>5 DEF Acquire, NextPointer
    <3>4. StreamOK'
      BY <2>5 DEF Acquire, NextPointer
    <3> QED
      BY <3>1, <3>2, <3>3, <3>4
  <2>6. CASE Configure
    BY <2>6 DEF Configure
  <2>7. CASE CreateConnectEvent
    <3>1. CtlOK'
      BY <2>7 DEF CreateConnectEvent
    <3>2. SocketOK'
      BY <2>7 DEF CreateConnectEvent
    <3>3. TokenOK'
      BY <2>7 DEF CreateConnectEvent
    <3>4. StreamOK'
      BY <2>7 DEF CreateConnectEvent
    <3> QED
      BY <3>1, <3>2, <3>3, <3>4
  <2>8. CASE Connect
    <3>1. CtlOK'
      BY <2>8 DEF Connect
    <3>2. SocketOK'
      BY <2>8 DEF Connect
    <3>3. TokenOK'
      BY <2>8 DEF Connect
    <3>4. StreamOK'
      BY <2>8 DEF Connect
    <3> QED
      BY <3>1, <3>2, <3>3, <3>4
  <2>9. CASE Connected
    BY <2>9 DEF Connected
  <2>10. CASE WaitForCompletion
    BY <2>10 DEF WaitForCompletion, PollOnce, Least, AfterWait, AfterTimeout
  <2>11. CASE CancelToken
    <3>1. CtlOK'
      BY <2>11 DEF CancelToken, NetworkNotify, EventOf
    <3>2. SocketOK'
      BY <2>11 DEF CancelToken, NetworkNotify, EventOf
    <3>3. TokenOK'
      BY <2>11, NotifyType DEF CancelToken
    <3>4. StreamOK'
      BY <2>11 DEF CancelToken, NetworkNotify, EventOf
    <3> QED
      BY <3>1, <3>2, <3>3, <3>4
  <2>12. CASE CancelWait
    BY <2>12 DEF CancelWait, PollOnce, Least
  <2>13. CASE CancelReturns
    BY <2>13 DEF CancelReturns, AfterCancel
  <2>14. CASE PostReceive
    <3>1. CtlOK'
      BY <2>14 DEF PostReceive
    <3>2. SocketOK'
      BY <2>14 DEF PostReceive
    <3>3. TokenOK'
      BY <2>14 DEF PostReceive
    <3>4. StreamOK'
      BY <2>14 DEF PostReceive
    <3> QED
      BY <3>1, <3>2, <3>3, <3>4
  <2>15. CASE Posted
    BY <2>15 DEF Posted
  <2>16. CASE RecvCopies
    <3>1. CtlOK'
      BY <2>16 DEF RecvCopies, Least
    <3>2. SocketOK'
      BY <2>16 DEF RecvCopies, Least
    <3>3. TokenOK'
      BY <2>16 DEF RecvCopies, Least
    <3>4. StreamOK'
      BY <2>16 DEF RecvCopies, Least
    <3> QED
      BY <3>1, <3>2, <3>3, <3>4
  <2>17. CASE RecvEmpty
    BY <2>17 DEF RecvEmpty, MustPost
  <2>18. CASE Transmit
    <3>1. CtlOK'
      BY <2>18 DEF Transmit
    <3>2. SocketOK'
      BY <2>18 DEF Transmit
    <3>3. TokenOK'
      BY <2>18 DEF Transmit
    <3>4. StreamOK'
      BY <2>18 DEF Transmit
    <3> QED
      BY <3>1, <3>2, <3>3, <3>4
  <2>19. CASE Transmitted
    BY <2>19 DEF Transmitted
  <2>20. CASE Close
    BY <2>20 DEF Close
  <2>21. CASE CloseCall
    <3>1. CtlOK'
      BY <2>21 DEF CloseCall
    <3>2. SocketOK'
      BY <2>21 DEF CloseCall
    <3>3. TokenOK'
      <4>1. owned' \subseteq Tokens /\ Done' \subseteq Events
        BY <2>21 DEF CloseCall
      <4>2. tokStatus' \in [Tokens -> Statuses]
        BY <2>21 DEF CloseCall
      <4> QED
        BY <4>1, <4>2, <2>21 DEF CloseCall
    <3>4. StreamOK'
      BY <2>21 DEF CloseCall
    <3> QED
      BY <3>1, <3>2, <3>3, <3>4
  <2>22. CASE Reset
    <3>1. CtlOK'
      BY <2>22 DEF Reset, EventOf
    <3>2. SocketOK'
      BY <2>22 DEF Reset, EventOf
    <3>3. TokenOK'
      BY <2>22 DEF Reset, EventOf
    <3>4. StreamOK'
      BY <2>22 DEF Reset, EventOf
    <3> QED
      BY <3>1, <3>2, <3>3, <3>4
  <2>23. CASE Release
    <3>1. CtlOK'
      BY <2>23 DEF Release, ZeroSocket
    <3>2. SocketOK'
      BY <2>23 DEF Release, ZeroSocket
    <3>3. TokenOK'
      BY <2>23 DEF Release, ZeroSocket
    <3>4. StreamOK'
      BY <2>23 DEF Release, ZeroSocket
    <3> QED
      BY <3>1, <3>2, <3>3, <3>4
  <2>24. CASE Poll
    <3>1. CtlOK'
      BY <2>24 DEF Poll, FinishReceive
    <3>2. SocketOK'
      BY <2>24 DEF Poll, FinishReceive
    <3>3. TokenOK'
      BY <2>24 DEF Poll, FinishReceive
    <3>4. StreamOK'
      BY <2>24 DEF Poll, FinishReceive
    <3> QED
      BY <3>1, <3>2, <3>3, <3>4
  <2>25. CASE RecvCallback
    <3>1. CtlOK'
      BY <2>25 DEF RecvCallback, FinishReceive
    <3>2. SocketOK'
      BY <2>25 DEF RecvCallback, FinishReceive
    <3>3. TokenOK'
      BY <2>25 DEF RecvCallback, FinishReceive
    <3>4. StreamOK'
      BY <2>25 DEF RecvCallback, FinishReceive
    <3> QED
      BY <3>1, <3>2, <3>3, <3>4
  <2>26. CASE SendCallback
    BY <2>26 DEF SendCallback
  <2>27. CASE CloseFromMain
    BY <2>27 DEF CloseFromMain
  <2>28. CASE FirmwareConnect
    <3>1. CtlOK'
      BY <2>28 DEF FirmwareConnect, NetworkNotify, EventOf
    <3>2. SocketOK'
      BY <2>28 DEF FirmwareConnect, NetworkNotify, EventOf
    <3>3. TokenOK'
      BY <2>28, NotifyType DEF FirmwareConnect
    <3>4. StreamOK'
      BY <2>28 DEF FirmwareConnect, NetworkNotify, EventOf
    <3> QED
      BY <3>1, <3>2, <3>3, <3>4
  <2>29. ASSUME NEW n \in 0 .. RxCapacity, FirmwareReceive(n)
        PROVE  CtlOK' /\ SocketOK' /\ TokenOK' /\ StreamOK'
    <3>1. CtlOK'
      BY <2>29 DEF FirmwareReceive, NetworkNotify, EventOf, Least
    <3>2. SocketOK'
      BY <2>29 DEF FirmwareReceive, NetworkNotify, EventOf, Least
    <3>3. TokenOK'
      BY <2>29, NotifyType DEF FirmwareReceive
    <3>4. StreamOK'
      BY <2>29 DEF FirmwareReceive, NetworkNotify, EventOf, Least
    <3> QED
      BY <3>1, <3>2, <3>3, <3>4
  <2>30. CASE FirmwareReceiveFails
    <3>1. CtlOK'
      BY <2>30 DEF FirmwareReceiveFails, NetworkNotify, EventOf
    <3>2. SocketOK'
      BY <2>30 DEF FirmwareReceiveFails, NetworkNotify, EventOf
    <3>3. TokenOK'
      BY <2>30, NotifyType DEF FirmwareReceiveFails
    <3>4. StreamOK'
      BY <2>30 DEF FirmwareReceiveFails, NetworkNotify, EventOf
    <3> QED
      BY <3>1, <3>2, <3>3, <3>4
  <2>31. CASE FirmwareTransmit
    <3>1. CtlOK'
      BY <2>31 DEF FirmwareTransmit, NetworkNotify, EventOf
    <3>2. SocketOK'
      BY <2>31 DEF FirmwareTransmit, NetworkNotify, EventOf
    <3>3. TokenOK'
      BY <2>31, NotifyType DEF FirmwareTransmit
    <3>4. StreamOK'
      BY <2>31 DEF FirmwareTransmit, NetworkNotify, EventOf
    <3> QED
      BY <3>1, <3>2, <3>3, <3>4
  <2>32. CASE FirmwareClose
    <3>1. CtlOK'
      BY <2>32 DEF FirmwareClose, NetworkNotify, EventOf
    <3>2. SocketOK'
      BY <2>32 DEF FirmwareClose, NetworkNotify, EventOf
    <3>3. TokenOK'
      BY <2>32, NotifyType DEF FirmwareClose
    <3>4. StreamOK'
      BY <2>32 DEF FirmwareClose, NetworkNotify, EventOf
    <3> QED
      BY <3>1, <3>2, <3>3, <3>4
  <2>33. CASE PeerSends
    BY <2>33 DEF PeerSends
  <2>34. CASE PeerCloses
    BY <2>34 DEF PeerCloses
  <2>35. CASE PeerResets
    BY <2>35 DEF PeerResets
  <2>36. CASE UNCHANGED vars
    BY <2>36 DEF vars
  <2> QED
    BY <2>1, <2>2, <2>3, <2>4, <2>5, <2>6, <2>7, <2>8, <2>9, <2>10, <2>11,
       <2>12, <2>13, <2>14, <2>15, <2>16, <2>17, <2>18, <2>19, <2>20,
       <2>21, <2>22, <2>23, <2>24, <2>25, <2>26, <2>27, <2>28, <2>29,
       <2>30, <2>31, <2>32, <2>33, <2>34, <2>35, <2>36
    DEF Next, Program, Opening, Waiting, InCall, Closing, Calls, Firmware, Peer
<1> QED
  BY <1>1, <1>2, PTL DEF Spec
-----------------------------------------------------------------------------
(***************************************************************************)
(* Control.                                                                *)
(***************************************************************************)

\* No step of program, firmware or peer gives a token a second owner.
LEMMA OwnershipStep ==
    ASSUME TypeOK, Ownership, RxState, [Next]_vars
    PROVE  Ownership'
<1> USE DEF Ownership, RxState, Opened, Fresh, Pristine, InWait, Streaming,
            RxPosted, EFI_ERROR, TypeOK, CtlOK, TokenOK, Tokens, ctlVars,
            rxVars, dataVars, streamVars, callerVars
<1>1. CASE LocateHandles
  BY <1>1 DEF LocateHandles
<1>2. CASE ConnectReturns
  BY <1>2 DEF ConnectReturns
<1>3. CASE MediaMissing
  BY <1>3 DEF MediaMissing
<1>4. CASE OpenOnController
  BY <1>4 DEF OpenOnController, ZeroSocket
<1>5. CASE Acquire
  BY <1>5 DEF Acquire, NextPointer
<1>6. CASE Configure
  BY <1>6 DEF Configure
<1>7. CASE CreateConnectEvent
  BY <1>7 DEF CreateConnectEvent
<1>8. CASE Connect
  BY <1>8 DEF Connect
<1>9. CASE Connected
  BY <1>9 DEF Connected
<1>10. CASE WaitForCompletion
  BY <1>10 DEF WaitForCompletion, AfterWait, AfterTimeout, EventOf
<1>11. CASE CancelToken
  BY <1>11 DEF CancelToken, NetworkNotify, EventOf
<1>12. CASE CancelWait
  BY <1>12 DEF CancelWait
<1>13. CASE CancelReturns
  BY <1>13 DEF CancelReturns, AfterCancel, EventOf
<1>14. CASE PostReceive
  BY <1>14 DEF PostReceive
<1>15. CASE Posted
  BY <1>15 DEF Posted
<1>16. CASE RecvCopies
  BY <1>16 DEF RecvCopies
<1>17. CASE RecvEmpty
  BY <1>17 DEF RecvEmpty, MustPost
<1>18. CASE Transmit
  BY <1>18 DEF Transmit
<1>19. CASE Transmitted
  BY <1>19 DEF Transmitted
<1>20. CASE Close
  BY <1>20 DEF Close
<1>21. CASE CloseCall
  BY <1>21 DEF CloseCall
<1>22. CASE Reset
  BY <1>22 DEF Reset, EventOf
<1>23. CASE Release
  BY <1>23 DEF Release, ZeroSocket
<1>24. CASE Poll
  BY <1>24 DEF Poll, FinishReceive, RxCompleted, EndsStream
<1>25. CASE RecvCallback
  BY <1>25 DEF RecvCallback, FinishReceive, RxCompleted, EndsStream
<1>26. CASE SendCallback
  BY <1>26 DEF SendCallback
<1>27. CASE CloseFromMain
  BY <1>27 DEF CloseFromMain
<1>28. CASE FirmwareConnect
  BY <1>28 DEF FirmwareConnect, NetworkNotify, EventOf
<1>29. ASSUME NEW n \in 0 .. RxCapacity, FirmwareReceive(n)
      PROVE  Ownership'
  BY <1>29 DEF FirmwareReceive, NetworkNotify, EventOf
<1>30. CASE FirmwareReceiveFails
  BY <1>30 DEF FirmwareReceiveFails, NetworkNotify, EventOf
<1>31. CASE FirmwareTransmit
  BY <1>31 DEF FirmwareTransmit, NetworkNotify, EventOf
<1>32. CASE FirmwareClose
  BY <1>32 DEF FirmwareClose, NetworkNotify, EventOf
<1>33. CASE PeerSends
  BY <1>33 DEF PeerSends
<1>34. CASE PeerCloses
  BY <1>34 DEF PeerCloses
<1>35. CASE PeerResets
  BY <1>35 DEF PeerResets
<1>36. CASE UNCHANGED vars
  BY <1>36 DEF vars
<1> QED
  BY <1>1, <1>2, <1>3, <1>4, <1>5, <1>6, <1>7, <1>8, <1>9, <1>10, <1>11,
       <1>12, <1>13, <1>14, <1>15, <1>16, <1>17, <1>18, <1>19, <1>20,
       <1>21, <1>22, <1>23, <1>24, <1>25, <1>26, <1>27, <1>28, <1>29,
       <1>30, <1>31, <1>32, <1>33, <1>34, <1>35, <1>36
  DEF Next, Program, Opening, Waiting, InCall, Closing, Calls, Firmware, Peer

\* FinishReceive takes the completed receive out of the token.
LEMMA Harvest ==
    ASSUME TypeOK, RxState, Streaming, RxCompleted, FinishReceive
    PROVE  /\ ~RxActive' /\ "rx" \notin owned
           /\ RxLength = 0 /\ ~EndOfStream
           /\ EndOfStream' => RxLength' = 0
           /\ RxLength' = 0 \/ RxOffset' < RxLength'
<1>1. ~RxActive' /\ "rx" \notin owned /\ RxLength = 0 /\ ~EndOfStream
  BY DEF RxCompleted, FinishReceive, RxState, RxPosted
<1>2. CASE tokStatus["rx"] = "SUCCESS"
  <2>1. RxOffset' = 0 /\ RxLength' = DataLength /\ ~EndOfStream'
    BY <1>1, <1>2 DEF FinishReceive, EndsStream
  <2> QED
    BY <1>1, <2>1, SizeAssumption DEF TypeOK, SocketOK
<1>3. CASE tokStatus["rx"] # "SUCCESS"
  BY <1>1, <1>3 DEF FinishReceive
<1> QED
  BY <1>1, <1>2, <1>3

\* A receive that is posted is at the firmware or has completed.
LEMMA RxStateStep ==
    ASSUME TypeOK, Ownership, RxState, [Next]_vars
    PROVE  RxState'
<1> USE DEF Ownership, RxState, Opened, Fresh, Pristine, InWait, Streaming,
            RxPosted, EFI_ERROR, TypeOK, CtlOK, SocketOK, TokenOK, Tokens, ctlVars,
            rxVars, dataVars, streamVars, callerVars
<1>1. CASE LocateHandles
  BY <1>1 DEF LocateHandles
<1>2. CASE ConnectReturns
  BY <1>2 DEF ConnectReturns
<1>3. CASE MediaMissing
  BY <1>3 DEF MediaMissing
<1>4. CASE OpenOnController
  BY <1>4 DEF OpenOnController, ZeroSocket
<1>5. CASE Acquire
  BY <1>5 DEF Acquire, NextPointer
<1>6. CASE Configure
  BY <1>6 DEF Configure
<1>7. CASE CreateConnectEvent
  BY <1>7 DEF CreateConnectEvent
<1>8. CASE Connect
  BY <1>8 DEF Connect
<1>9. CASE Connected
  BY <1>9 DEF Connected
<1>10. CASE WaitForCompletion
  BY <1>10 DEF WaitForCompletion, AfterWait, AfterTimeout, EventOf
<1>11. CASE CancelToken
  BY <1>11 DEF CancelToken, NetworkNotify, EventOf
<1>12. CASE CancelWait
  BY <1>12 DEF CancelWait
<1>13. CASE CancelReturns
  BY <1>13 DEF CancelReturns, AfterCancel, EventOf
<1>14. CASE PostReceive
  BY <1>14 DEF PostReceive
<1>15. CASE Posted
  <2>1. CASE EFI_ERROR(Status)
    BY <1>15, <2>1 DEF Posted
  <2>2. CASE ~EFI_ERROR(Status)
    BY <1>15, <2>2 DEF Posted
  <2> QED
    BY <2>1, <2>2
<1>16. CASE RecvCopies
  <2> PICK Size \in 1 .. MaxRead :
        LET CopyLength == Least(Size, RxLength - RxOffset)
        IN  /\ RxOffset' = IF RxOffset + CopyLength = RxLength
                          THEN 0 ELSE RxOffset + CopyLength
            /\ RxLength' = IF RxOffset + CopyLength = RxLength
                          THEN 0 ELSE RxLength
            /\ pc' = IF RxOffset + CopyLength = RxLength
                    THEN "Post" ELSE "Idle"
    BY <1>16, SizeAssumption DEF RecvCopies
  <2>1. ~RxActive /\ ~EndOfStream /\ "rx" \notin owned /\ ~Pristine'
    BY <1>16 DEF RecvCopies
  <2> QED
    BY <1>16, <2>1, SizeAssumption DEF RecvCopies, Least
<1>17. CASE RecvEmpty
  BY <1>17 DEF RecvEmpty, MustPost
<1>18. CASE Transmit
  BY <1>18 DEF Transmit
<1>19. CASE Transmitted
  BY <1>19 DEF Transmitted
<1>20. CASE Close
  BY <1>20 DEF Close
<1>21. CASE CloseCall
  BY <1>21 DEF CloseCall
<1>22. CASE Reset
  BY <1>22 DEF Reset, EventOf
<1>23. CASE Release
  BY <1>23 DEF Release, ZeroSocket
<1>24. CASE Poll
  <2>1. CASE RxCompleted
    BY <1>24, <2>1, Harvest DEF Poll
  <2>2. CASE ~RxCompleted
    BY <1>24, <2>2 DEF Poll, FinishReceive, RxCompleted
  <2> QED
    BY <2>1, <2>2
<1>25. CASE RecvCallback
  <2>1. CASE RxCompleted
    BY <1>25, <2>1, Harvest DEF RecvCallback
  <2>2. CASE ~RxCompleted
    BY <1>25, <2>2 DEF RecvCallback, FinishReceive, RxCompleted
  <2> QED
    BY <2>1, <2>2
<1>26. CASE SendCallback
  BY <1>26 DEF SendCallback
<1>27. CASE CloseFromMain
  BY <1>27 DEF CloseFromMain
<1>28. CASE FirmwareConnect
  BY <1>28 DEF FirmwareConnect, NetworkNotify, EventOf
<1>29. ASSUME NEW n \in 0 .. RxCapacity, FirmwareReceive(n)
      PROVE  RxState'
  BY <1>29 DEF FirmwareReceive, NetworkNotify, EventOf
<1>30. CASE FirmwareReceiveFails
  BY <1>30 DEF FirmwareReceiveFails, NetworkNotify, EventOf
<1>31. CASE FirmwareTransmit
  BY <1>31 DEF FirmwareTransmit, NetworkNotify, EventOf
<1>32. CASE FirmwareClose
  BY <1>32 DEF FirmwareClose, NetworkNotify, EventOf
<1>33. CASE PeerSends
  BY <1>33 DEF PeerSends
<1>34. CASE PeerCloses
  BY <1>34 DEF PeerCloses
<1>35. CASE PeerResets
  BY <1>35 DEF PeerResets
<1>36. CASE UNCHANGED vars
  BY <1>36 DEF vars
<1> QED
  BY <1>1, <1>2, <1>3, <1>4, <1>5, <1>6, <1>7, <1>8, <1>9, <1>10, <1>11,
       <1>12, <1>13, <1>14, <1>15, <1>16, <1>17, <1>18, <1>19, <1>20,
       <1>21, <1>22, <1>23, <1>24, <1>25, <1>26, <1>27, <1>28, <1>29,
       <1>30, <1>31, <1>32, <1>33, <1>34, <1>35, <1>36
  DEF Next, Program, Opening, Waiting, InCall, Closing, Calls, Firmware, Peer

-----------------------------------------------------------------------------
(***************************************************************************)
(* Data.                                                                   *)
(***************************************************************************)

\* Nothing is read before a connection is open.
LEMMA NothingReadStep ==
    ASSUME TypeOK, Ownership, NothingRead, [Next]_vars
    PROVE  NothingRead'
<1> USE DEF NothingRead, Ownership, Opened, Fresh, InWait,
            EFI_ERROR, ctlVars, rxVars, dataVars, streamVars, callerVars
<1>1. CASE LocateHandles
  BY <1>1 DEF LocateHandles
<1>2. CASE ConnectReturns
  BY <1>2 DEF ConnectReturns
<1>3. CASE MediaMissing
  BY <1>3 DEF MediaMissing
<1>4. CASE OpenOnController
  BY <1>4 DEF OpenOnController, ZeroSocket
<1>5. CASE Acquire
  BY <1>5 DEF Acquire, NextPointer
<1>6. CASE Configure
  BY <1>6 DEF Configure
<1>7. CASE CreateConnectEvent
  BY <1>7 DEF CreateConnectEvent
<1>8. CASE Connect
  BY <1>8 DEF Connect
<1>9. CASE Connected
  BY <1>9 DEF Connected
<1>10. CASE WaitForCompletion
  BY <1>10 DEF WaitForCompletion, AfterWait, AfterTimeout, EventOf
<1>11. CASE CancelToken
  BY <1>11 DEF CancelToken, NetworkNotify, EventOf
<1>12. CASE CancelWait
  BY <1>12 DEF CancelWait
<1>13. CASE CancelReturns
  BY <1>13 DEF CancelReturns, AfterCancel, EventOf
<1>14. CASE PostReceive
  BY <1>14 DEF PostReceive
<1>15. CASE Posted
  BY <1>15 DEF Posted
<1>16. CASE RecvCopies
  BY <1>16 DEF RecvCopies
<1>17. CASE RecvEmpty
  BY <1>17 DEF RecvEmpty, MustPost
<1>18. CASE Transmit
  BY <1>18 DEF Transmit
<1>19. CASE Transmitted
  BY <1>19 DEF Transmitted
<1>20. CASE Close
  BY <1>20 DEF Close
<1>21. CASE CloseCall
  BY <1>21 DEF CloseCall
<1>22. CASE Reset
  BY <1>22 DEF Reset, EventOf
<1>23. CASE Release
  BY <1>23 DEF Release, ZeroSocket
<1>24. CASE Poll
  BY <1>24 DEF Poll, FinishReceive, RxCompleted, EndsStream
<1>25. CASE RecvCallback
  BY <1>25 DEF RecvCallback, FinishReceive, RxCompleted, EndsStream
<1>26. CASE SendCallback
  BY <1>26 DEF SendCallback
<1>27. CASE CloseFromMain
  BY <1>27 DEF CloseFromMain
<1>28. CASE FirmwareConnect
  BY <1>28 DEF FirmwareConnect, NetworkNotify, EventOf
<1>29. ASSUME NEW n \in 0 .. RxCapacity, FirmwareReceive(n)
      PROVE  NothingRead'
  BY <1>29 DEF FirmwareReceive, NetworkNotify, EventOf
<1>30. CASE FirmwareReceiveFails
  BY <1>30 DEF FirmwareReceiveFails, NetworkNotify, EventOf
<1>31. CASE FirmwareTransmit
  BY <1>31 DEF FirmwareTransmit, NetworkNotify, EventOf
<1>32. CASE FirmwareClose
  BY <1>32 DEF FirmwareClose, NetworkNotify, EventOf
<1>33. CASE PeerSends
  BY <1>33 DEF PeerSends
<1>34. CASE PeerCloses
  BY <1>34 DEF PeerCloses
<1>35. CASE PeerResets
  BY <1>35 DEF PeerResets
<1>36. CASE UNCHANGED vars
  BY <1>36 DEF vars
<1> QED
  BY <1>1, <1>2, <1>3, <1>4, <1>5, <1>6, <1>7, <1>8, <1>9, <1>10, <1>11,
       <1>12, <1>13, <1>14, <1>15, <1>16, <1>17, <1>18, <1>19, <1>20,
       <1>21, <1>22, <1>23, <1>24, <1>25, <1>26, <1>27, <1>28, <1>29,
       <1>30, <1>31, <1>32, <1>33, <1>34, <1>35, <1>36
  DEF Next, Program, Opening, Waiting, InCall, Closing, Calls, Firmware, Peer

\* RecvCopies hands out the first n unread bytes of RxBuffer.
LEMMA Copy ==
    ASSUME TypeOK, RecvCopies
    PROVE  \E n \in 1 .. RxLength - RxOffset :
             /\ Len(delivered') = Len(delivered) + n
             /\ \A i \in 1 .. Len(delivered) : delivered'[i] = delivered[i]
             /\ \A i \in 1 .. n :
                   delivered'[Len(delivered) + i] = RxBuffer[RxOffset + i]
             /\ IF RxOffset + n = RxLength
                THEN RxOffset' = 0 /\ RxLength' = 0 /\ pc' = "Post"
                ELSE RxOffset' = RxOffset + n /\ RxLength' = RxLength /\ pc' = "Idle"
<1> USE SizeAssumption DEF TypeOK, SocketOK, StreamOK
<1>1. PICK Size \in 1 .. MaxRead :
        LET n == Least(Size, RxLength - RxOffset)
        IN  /\ delivered' = delivered \o [i \in 1 .. n |-> RxBuffer[RxOffset + i]]
            /\ RxOffset' = IF RxOffset + n = RxLength THEN 0 ELSE RxOffset + n
            /\ RxLength' = IF RxOffset + n = RxLength THEN 0 ELSE RxLength
            /\ pc' = IF RxOffset + n = RxLength THEN "Post" ELSE "Idle"
  BY DEF RecvCopies
<1> DEFINE n == Least(Size, RxLength - RxOffset)
           copy == [i \in 1 .. n |-> RxBuffer[RxOffset + i]]
<1>2. n \in 1 .. RxLength - RxOffset
  BY DEF RecvCopies, Least
<1>3. copy \in Seq(Nat) /\ Len(copy) = n
  BY <1>2
<1>4. /\ Len(delivered') = Len(delivered) + n
      /\ \A i \in 1 .. Len(delivered) : delivered'[i] = delivered[i]
      /\ \A i \in 1 .. n :
            delivered'[Len(delivered) + i] = RxBuffer[RxOffset + i]
  <2> HIDE DEF n
  <2>1. delivered' = delivered \o copy
    BY <1>1 DEF n
  <2>2. \A i \in 1 .. n : copy[i] = RxBuffer[RxOffset + i]
    OBVIOUS
  <2> HIDE DEF copy
  <2>3. /\ Len(delivered \o copy) = Len(delivered) + n
        /\ \A i \in 1 .. Len(delivered) + n :
              (delivered \o copy)[i] = IF i <= Len(delivered) THEN delivered[i]
                                      ELSE copy[i - Len(delivered)]
    BY <1>3, ConcatProperties
  <2>4. Len(delivered) \in Nat /\ n \in Nat
    BY <1>2
  <2> QED
    BY <2>1, <2>2, <2>3, <2>4
<1> HIDE DEF n
<1>5. IF RxOffset + n = RxLength
      THEN RxOffset' = 0 /\ RxLength' = 0 /\ pc' = "Post"
      ELSE RxOffset' = RxOffset + n /\ RxLength' = RxLength /\ pc' = "Idle"
  BY <1>1 DEF n
<1> QED
  BY <1>2, <1>4, <1>5

\* FinishReceive makes the bytes in RxBuffer the unread ones.
LEMMA HarvestBytes ==
    ASSUME TypeOK, RxState, Streaming, RxCompleted, FinishReceive
    PROVE  /\ RxLength' = Unharvested + RxLength /\ RxLength = 0
           /\ RxLength' > 0 => RxOffset' = 0
           /\ RxLength' = 0 => RxOffset' = 0
<1>1. RxPosted /\ RxLength = 0 /\ RxOffset = 0 /\ "rx" \notin owned
  BY Harvest, SizeAssumption DEF RxCompleted, RxPosted, TypeOK, SocketOK
<1>2. CASE tokStatus["rx"] = "SUCCESS"
  BY <1>1, <1>2, RxCompleted, SizeAssumption
  DEF FinishReceive, Unharvested, TypeOK, SocketOK
<1>3. CASE tokStatus["rx"] # "SUCCESS"
  BY <1>1, <1>3, RxCompleted DEF FinishReceive, Unharvested
<1> QED
  BY <1>2, <1>3

\* No byte taken from the stream is dropped or counted twice.
LEMMA ConservedStep ==
    ASSUME TypeOK, Ownership, RxState, NothingRead, Conserved, [Next]_vars
    PROVE  Conserved'
<1> USE SizeAssumption
<1> USE DEF Conserved, NothingRead, Unharvested, Ownership, RxState, Opened, Fresh, Pristine, InWait, Streaming, RxPosted,
            EFI_ERROR, TypeOK, CtlOK, SocketOK, TokenOK, StreamOK, Tokens,
            ctlVars, rxVars, dataVars, streamVars, callerVars
<1>1. CASE LocateHandles
  BY <1>1 DEF LocateHandles
<1>2. CASE ConnectReturns
  BY <1>2 DEF ConnectReturns
<1>3. CASE MediaMissing
  BY <1>3 DEF MediaMissing
<1>4. CASE OpenOnController
  BY <1>4 DEF OpenOnController, ZeroSocket
<1>5. CASE Acquire
  BY <1>5 DEF Acquire, NextPointer
<1>6. CASE Configure
  BY <1>6 DEF Configure
<1>7. CASE CreateConnectEvent
  BY <1>7 DEF CreateConnectEvent
<1>8. CASE Connect
  BY <1>8 DEF Connect
<1>9. CASE Connected
  BY <1>9 DEF Connected
<1>10. CASE WaitForCompletion
  BY <1>10 DEF WaitForCompletion, AfterWait, AfterTimeout, EventOf
<1>11. CASE CancelToken
  BY <1>11 DEF CancelToken, NetworkNotify, EventOf
<1>12. CASE CancelWait
  BY <1>12 DEF CancelWait
<1>13. CASE CancelReturns
  BY <1>13 DEF CancelReturns, AfterCancel, EventOf
<1>14. CASE PostReceive
  BY <1>14 DEF PostReceive
<1>15. CASE Posted
  BY <1>15 DEF Posted
<1>16. CASE RecvCopies
  <2>1. PICK n \in 1 .. RxLength - RxOffset :
           /\ Len(delivered') = Len(delivered) + n
           /\ IF RxOffset + n = RxLength
              THEN RxOffset' = 0 /\ RxLength' = 0 /\ pc' = "Post"
              ELSE RxOffset' = RxOffset + n /\ RxLength' = RxLength /\ pc' = "Idle"
    BY <1>16, Copy
  <2>2. ~RxPosted /\ ~RxPosted'
    BY <1>16, <2>1 DEF RecvCopies
  <2>3. taken = Len(delivered) + (RxLength - RxOffset)
    BY <1>16, <2>2 DEF RecvCopies
  <2>4. RxOffset \in Nat /\ RxLength \in Nat /\ Len(delivered) \in Nat
    OBVIOUS
  <2>5. taken' = Len(delivered') + (RxLength' - RxOffset')
    <3>1. taken' = taken
      BY <1>16 DEF RecvCopies
    <3> HIDE DEF Conserved, TypeOK, RxState, Ownership
    <3>2. n \in Nat
      BY <2>1, <2>4
    <3>3. CASE RxOffset + n = RxLength
      <4>1. RxOffset' = 0 /\ RxLength' = 0
        BY <2>1, <3>3
      <4>2. Len(delivered') = Len(delivered) + (RxLength - RxOffset)
        BY <2>1, <2>4, <3>2, <3>3
      <4> QED
        BY <2>3, <2>4, <3>1, <4>1, <4>2
    <3>4. CASE RxOffset + n # RxLength
      BY <2>1, <2>3, <2>4, <3>1, <3>2, <3>4
    <3> QED
      BY <3>3, <3>4
  <2> QED
    BY <2>2, <2>5
<1>17. CASE RecvEmpty
  BY <1>17 DEF RecvEmpty, MustPost
<1>18. CASE Transmit
  BY <1>18 DEF Transmit
<1>19. CASE Transmitted
  BY <1>19 DEF Transmitted
<1>20. CASE Close
  BY <1>20 DEF Close
<1>21. CASE CloseCall
  BY <1>21 DEF CloseCall
<1>22. CASE Reset
  BY <1>22 DEF Reset, EventOf
<1>23. CASE Release
  BY <1>23 DEF Release, ZeroSocket
<1>24. CASE Poll
  <2>1. CASE RxCompleted
    <3>1. Unharvested' = 0 /\ RxLength' - RxOffset' = Unharvested
            /\ RxLength - RxOffset = 0 /\ Streaming
      BY <1>24, <2>1, Harvest, HarvestBytes DEF Poll, RxCompleted
    <3> QED
      BY <1>24, <3>1 DEF Poll
  <2>2. CASE ~RxCompleted
    BY <1>24, <2>2 DEF Poll, FinishReceive
  <2> QED
    BY <2>1, <2>2
<1>25. CASE RecvCallback
  <2>1. CASE RxCompleted
    <3>1. Unharvested' = 0 /\ RxLength' - RxOffset' = Unharvested
            /\ RxLength - RxOffset = 0 /\ Streaming
      BY <1>25, <2>1, Harvest, HarvestBytes DEF RecvCallback, RxCompleted
    <3> QED
      BY <1>25, <3>1 DEF RecvCallback
  <2>2. CASE ~RxCompleted
    BY <1>25, <2>2 DEF RecvCallback, FinishReceive
  <2> QED
    BY <2>1, <2>2
<1>26. CASE SendCallback
  BY <1>26 DEF SendCallback
<1>27. CASE CloseFromMain
  BY <1>27 DEF CloseFromMain
<1>28. CASE FirmwareConnect
  BY <1>28 DEF FirmwareConnect, NetworkNotify, EventOf
<1>29. ASSUME NEW n \in 0 .. RxCapacity, FirmwareReceive(n)
      PROVE  Conserved'
  <2> SUFFICES ASSUME Streaming PROVE Conserved'
    BY <1>29 DEF FirmwareReceive
  <2>1. RxPosted /\ RxPosted' /\ RxLength = 0 /\ RxOffset = 0 /\ Unharvested = 0
    BY <1>29 DEF FirmwareReceive, NetworkNotify
  <2>2. "rx" \notin owned' /\ tokStatus'["rx"] = "SUCCESS"
    BY <1>29 DEF FirmwareReceive, NetworkNotify
  <2>3. Unharvested' = n
    BY <1>29, <2>1, <2>2 DEF FirmwareReceive
  <2>4. taken = Len(delivered)
    BY <2>1
  <2> QED
    BY <1>29, <2>1, <2>3, <2>4 DEF FirmwareReceive
<1>30. CASE FirmwareReceiveFails
  BY <1>30 DEF FirmwareReceiveFails, NetworkNotify, EventOf
<1>31. CASE FirmwareTransmit
  BY <1>31 DEF FirmwareTransmit, NetworkNotify, EventOf
<1>32. CASE FirmwareClose
  BY <1>32 DEF FirmwareClose, NetworkNotify, EventOf
<1>33. CASE PeerSends
  BY <1>33 DEF PeerSends
<1>34. CASE PeerCloses
  BY <1>34 DEF PeerCloses
<1>35. CASE PeerResets
  BY <1>35 DEF PeerResets
<1>36. CASE UNCHANGED vars
  BY <1>36 DEF vars
<1> QED
  BY <1>1, <1>2, <1>3, <1>4, <1>5, <1>6, <1>7, <1>8, <1>9, <1>10, <1>11,
       <1>12, <1>13, <1>14, <1>15, <1>16, <1>17, <1>18, <1>19, <1>20,
       <1>21, <1>22, <1>23, <1>24, <1>25, <1>26, <1>27, <1>28, <1>29,
       <1>30, <1>31, <1>32, <1>33, <1>34, <1>35, <1>36
  DEF Next, Program, Opening, Waiting, InCall, Closing, Calls, Firmware, Peer

\* Every read continues the stream where the last one stopped.
LEMMA InOrderStep ==
    ASSUME TypeOK, RxState, InOrder, Conserved, Contents, [Next]_vars
    PROVE  InOrder'
<1> USE DEF InOrder, ctlVars, rxVars, dataVars, streamVars, callerVars
<1>1. CASE LocateHandles
  BY <1>1 DEF LocateHandles
<1>2. CASE ConnectReturns
  BY <1>2 DEF ConnectReturns
<1>3. CASE MediaMissing
  BY <1>3 DEF MediaMissing
<1>4. CASE OpenOnController
  BY <1>4 DEF OpenOnController, ZeroSocket
<1>5. CASE Acquire
  BY <1>5 DEF Acquire, NextPointer
<1>6. CASE Configure
  BY <1>6 DEF Configure
<1>7. CASE CreateConnectEvent
  BY <1>7 DEF CreateConnectEvent
<1>8. CASE Connect
  BY <1>8 DEF Connect
<1>9. CASE Connected
  BY <1>9 DEF Connected
<1>10. CASE WaitForCompletion
  BY <1>10 DEF WaitForCompletion, AfterWait, AfterTimeout, EventOf
<1>11. CASE CancelToken
  BY <1>11 DEF CancelToken, NetworkNotify, EventOf
<1>12. CASE CancelWait
  BY <1>12 DEF CancelWait
<1>13. CASE CancelReturns
  BY <1>13 DEF CancelReturns, AfterCancel, EventOf
<1>14. CASE PostReceive
  BY <1>14 DEF PostReceive
<1>15. CASE Posted
  BY <1>15 DEF Posted
<1>16. CASE RecvCopies
  <2>1. PICK n \in 1 .. RxLength - RxOffset :
           /\ Len(delivered') = Len(delivered) + n
           /\ \A i \in 1 .. Len(delivered) : delivered'[i] = delivered[i]
           /\ \A i \in 1 .. n :
                 delivered'[Len(delivered) + i] = RxBuffer[RxOffset + i]
    BY <1>16, Copy
  <2>2. \A i \in 1 .. n : RxBuffer[RxOffset + i] = Len(delivered) + i
    BY <1>16, SizeAssumption
    DEF RecvCopies, Contents, Streaming, TypeOK, SocketOK
  <2>3. Len(delivered) \in Nat /\ n \in Nat
    BY SizeAssumption DEF TypeOK, SocketOK, StreamOK
  <2>4. ASSUME NEW i \in 1 .. Len(delivered') PROVE delivered'[i] = i
    <3>1. CASE i <= Len(delivered)
      BY <2>1, <2>3, <3>1
    <3>2. CASE i > Len(delivered)
      <4>1. i - Len(delivered) \in 1 .. n
        BY <2>1, <2>3, <3>2
      <4>2. delivered'[Len(delivered) + (i - Len(delivered))]
              = Len(delivered) + (i - Len(delivered))
        BY <2>1, <2>2, <4>1
      <4> QED
        BY <2>3, <4>2
    <3> QED
      BY <2>3, <3>1, <3>2
  <2> QED
    BY <2>4
<1>17. CASE RecvEmpty
  BY <1>17 DEF RecvEmpty, MustPost
<1>18. CASE Transmit
  BY <1>18 DEF Transmit
<1>19. CASE Transmitted
  BY <1>19 DEF Transmitted
<1>20. CASE Close
  BY <1>20 DEF Close
<1>21. CASE CloseCall
  BY <1>21 DEF CloseCall
<1>22. CASE Reset
  BY <1>22 DEF Reset, EventOf
<1>23. CASE Release
  BY <1>23 DEF Release, ZeroSocket
<1>24. CASE Poll
  BY <1>24 DEF Poll, FinishReceive, RxCompleted, EndsStream
<1>25. CASE RecvCallback
  BY <1>25 DEF RecvCallback, FinishReceive, RxCompleted, EndsStream
<1>26. CASE SendCallback
  BY <1>26 DEF SendCallback
<1>27. CASE CloseFromMain
  BY <1>27 DEF CloseFromMain
<1>28. CASE FirmwareConnect
  BY <1>28 DEF FirmwareConnect, NetworkNotify, EventOf
<1>29. ASSUME NEW n \in 0 .. RxCapacity, FirmwareReceive(n)
      PROVE  InOrder'
  BY <1>29 DEF FirmwareReceive, NetworkNotify, EventOf
<1>30. CASE FirmwareReceiveFails
  BY <1>30 DEF FirmwareReceiveFails, NetworkNotify, EventOf
<1>31. CASE FirmwareTransmit
  BY <1>31 DEF FirmwareTransmit, NetworkNotify, EventOf
<1>32. CASE FirmwareClose
  BY <1>32 DEF FirmwareClose, NetworkNotify, EventOf
<1>33. CASE PeerSends
  BY <1>33 DEF PeerSends
<1>34. CASE PeerCloses
  BY <1>34 DEF PeerCloses
<1>35. CASE PeerResets
  BY <1>35 DEF PeerResets
<1>36. CASE UNCHANGED vars
  BY <1>36 DEF vars
<1> QED
  BY <1>1, <1>2, <1>3, <1>4, <1>5, <1>6, <1>7, <1>8, <1>9, <1>10, <1>11,
       <1>12, <1>13, <1>14, <1>15, <1>16, <1>17, <1>18, <1>19, <1>20,
       <1>21, <1>22, <1>23, <1>24, <1>25, <1>26, <1>27, <1>28, <1>29,
       <1>30, <1>31, <1>32, <1>33, <1>34, <1>35, <1>36
  DEF Next, Program, Opening, Waiting, InCall, Closing, Calls, Firmware, Peer

\* RxBuffer holds the next bytes of the stream.
LEMMA ContentsStep ==
    ASSUME TypeOK, Ownership, RxState, Conserved, Contents, [Next]_vars
    PROVE  Contents'
<1> USE SizeAssumption
<1> USE DEF Contents, Conserved, Unharvested, Ownership, RxState, Opened, Fresh, Pristine, InWait, Streaming, RxPosted,
            EFI_ERROR, TypeOK, CtlOK, SocketOK, TokenOK, StreamOK, Tokens,
            ctlVars, rxVars, dataVars, streamVars, callerVars
<1>1. CASE LocateHandles
  BY <1>1 DEF LocateHandles
<1>2. CASE ConnectReturns
  BY <1>2 DEF ConnectReturns
<1>3. CASE MediaMissing
  BY <1>3 DEF MediaMissing
<1>4. CASE OpenOnController
  BY <1>4 DEF OpenOnController, ZeroSocket
<1>5. CASE Acquire
  BY <1>5 DEF Acquire, NextPointer
<1>6. CASE Configure
  BY <1>6 DEF Configure
<1>7. CASE CreateConnectEvent
  BY <1>7 DEF CreateConnectEvent
<1>8. CASE Connect
  BY <1>8 DEF Connect
<1>9. CASE Connected
  BY <1>9 DEF Connected
<1>10. CASE WaitForCompletion
  BY <1>10 DEF WaitForCompletion, AfterWait, AfterTimeout, EventOf
<1>11. CASE CancelToken
  BY <1>11 DEF CancelToken, NetworkNotify, EventOf
<1>12. CASE CancelWait
  BY <1>12 DEF CancelWait
<1>13. CASE CancelReturns
  BY <1>13 DEF CancelReturns, AfterCancel, EventOf
<1>14. CASE PostReceive
  BY <1>14 DEF PostReceive
<1>15. CASE Posted
  BY <1>15 DEF Posted
<1>16. CASE RecvCopies
  <2>1. PICK n \in 1 .. RxLength - RxOffset :
           /\ Len(delivered') = Len(delivered) + n
           /\ IF RxOffset + n = RxLength
              THEN RxOffset' = 0 /\ RxLength' = 0 /\ pc' = "Post"
              ELSE RxOffset' = RxOffset + n /\ RxLength' = RxLength /\ pc' = "Idle"
    BY <1>16, Copy
  <2>2. ~RxPosted' /\ RxBuffer' = RxBuffer /\ Streaming
    BY <1>16, <2>1 DEF RecvCopies
  <2>3. Len(delivered) \in Nat /\ RxOffset \in Nat /\ RxLength \in Nat
    OBVIOUS
  <2>4. ASSUME NEW i \in 1 .. RxLength' - RxOffset'
        PROVE  RxBuffer'[RxOffset' + i] = Len(delivered') + i
    <3>1. RxOffset' = RxOffset + n /\ RxLength' = RxLength
      BY <2>1, <2>3
    <3>2. n + i \in 1 .. RxLength - RxOffset
      BY <2>1, <2>3, <3>1
    <3>3. RxBuffer[RxOffset + (n + i)] = Len(delivered) + (n + i)
      BY <2>2, <3>2
    <3>4. RxOffset + (n + i) = RxOffset' + i /\ Len(delivered') + i = Len(delivered) + (n + i)
      BY <2>1, <2>3, <3>1
    <3> QED
      BY <2>2, <3>3, <3>4
  <2>5. 1 .. Unharvested' = {}
    BY <2>2
  <2> QED
    BY <2>4, <2>5
<1>17. CASE RecvEmpty
  BY <1>17 DEF RecvEmpty, MustPost
<1>18. CASE Transmit
  BY <1>18 DEF Transmit
<1>19. CASE Transmitted
  BY <1>19 DEF Transmitted
<1>20. CASE Close
  BY <1>20 DEF Close
<1>21. CASE CloseCall
  BY <1>21 DEF CloseCall
<1>22. CASE Reset
  BY <1>22 DEF Reset, EventOf
<1>23. CASE Release
  BY <1>23 DEF Release, ZeroSocket
<1>24. CASE Poll
  <2>1. CASE RxCompleted
    <3>1. /\ ~RxPosted' /\ RxLength' = Unharvested /\ RxOffset' = 0 /\ Streaming
          /\ RxBuffer' = RxBuffer /\ delivered' = delivered
      BY <1>24, <2>1, Harvest, HarvestBytes DEF Poll, RxCompleted
    <3>2. 1 .. Unharvested' = {}
      BY <3>1
    <3>3. \A i \in 1 .. RxLength' - RxOffset' :
             RxBuffer'[RxOffset' + i] = Len(delivered') + i
      BY <3>1
    <3> QED
      BY <3>2, <3>3
  <2>2. CASE ~RxCompleted
    BY <1>24, <2>2 DEF Poll, FinishReceive
  <2> QED
    BY <2>1, <2>2
<1>25. CASE RecvCallback
  <2>1. CASE RxCompleted
    <3>1. /\ ~RxPosted' /\ RxLength' = Unharvested /\ RxOffset' = 0 /\ Streaming
          /\ RxBuffer' = RxBuffer /\ delivered' = delivered
      BY <1>25, <2>1, Harvest, HarvestBytes DEF RecvCallback, RxCompleted
    <3>2. 1 .. Unharvested' = {}
      BY <3>1
    <3>3. \A i \in 1 .. RxLength' - RxOffset' :
             RxBuffer'[RxOffset' + i] = Len(delivered') + i
      BY <3>1
    <3> QED
      BY <3>2, <3>3
  <2>2. CASE ~RxCompleted
    BY <1>25, <2>2 DEF RecvCallback, FinishReceive
  <2> QED
    BY <2>1, <2>2
<1>26. CASE SendCallback
  BY <1>26 DEF SendCallback
<1>27. CASE CloseFromMain
  BY <1>27 DEF CloseFromMain
<1>28. CASE FirmwareConnect
  BY <1>28 DEF FirmwareConnect, NetworkNotify, EventOf
<1>29. ASSUME NEW n \in 0 .. RxCapacity, FirmwareReceive(n)
      PROVE  Contents'
  <2> SUFFICES ASSUME Streaming PROVE Contents'
    BY <1>29 DEF FirmwareReceive
  <2>1. /\ RxPosted /\ RxLength = 0 /\ RxOffset = 0 /\ Unharvested = 0
        /\ RxLength' = 0 /\ RxOffset' = 0 /\ delivered' = delivered
    BY <1>29 DEF FirmwareReceive, NetworkNotify
  <2>2. taken = Len(delivered)
    BY <2>1
  <2>3. Unharvested' \in {0, n}
    BY <1>29 DEF FirmwareReceive
  <2>4. \A i \in 1 .. n : RxBuffer'[i] = Len(delivered') + i
    BY <1>29, <2>1, <2>2 DEF FirmwareReceive
  <2> QED
    BY <2>1, <2>3, <2>4
<1>30. CASE FirmwareReceiveFails
  BY <1>30 DEF FirmwareReceiveFails, NetworkNotify, EventOf
<1>31. CASE FirmwareTransmit
  BY <1>31 DEF FirmwareTransmit, NetworkNotify, EventOf
<1>32. CASE FirmwareClose
  BY <1>32 DEF FirmwareClose, NetworkNotify, EventOf
<1>33. CASE PeerSends
  BY <1>33 DEF PeerSends
<1>34. CASE PeerCloses
  BY <1>34 DEF PeerCloses
<1>35. CASE PeerResets
  BY <1>35 DEF PeerResets
<1>36. CASE UNCHANGED vars
  BY <1>36 DEF vars
<1> QED
  BY <1>1, <1>2, <1>3, <1>4, <1>5, <1>6, <1>7, <1>8, <1>9, <1>10, <1>11,
       <1>12, <1>13, <1>14, <1>15, <1>16, <1>17, <1>18, <1>19, <1>20,
       <1>21, <1>22, <1>23, <1>24, <1>25, <1>26, <1>27, <1>28, <1>29,
       <1>30, <1>31, <1>32, <1>33, <1>34, <1>35, <1>36
  DEF Next, Program, Opening, Waiting, InCall, Closing, Calls, Firmware, Peer

\* The end of the stream is noticed only behind its last byte.
LEMMA EndSeenStep ==
    ASSUME TypeOK, Ownership, RxState, EndSeen, [Next]_vars
    PROVE  EndSeen'
<1> USE SizeAssumption
<1> USE DEF EndSeen, Ownership, RxState, Opened, Fresh, Pristine, InWait, Streaming, RxPosted,
            EFI_ERROR, TypeOK, CtlOK, SocketOK, TokenOK, StreamOK, Tokens,
            ctlVars, rxVars, dataVars, streamVars, callerVars
<1>1. CASE LocateHandles
  BY <1>1 DEF LocateHandles
<1>2. CASE ConnectReturns
  BY <1>2 DEF ConnectReturns
<1>3. CASE MediaMissing
  BY <1>3 DEF MediaMissing
<1>4. CASE OpenOnController
  BY <1>4 DEF OpenOnController, ZeroSocket
<1>5. CASE Acquire
  BY <1>5 DEF Acquire, NextPointer
<1>6. CASE Configure
  BY <1>6 DEF Configure
<1>7. CASE CreateConnectEvent
  BY <1>7 DEF CreateConnectEvent
<1>8. CASE Connect
  BY <1>8 DEF Connect
<1>9. CASE Connected
  BY <1>9 DEF Connected
<1>10. CASE WaitForCompletion
  BY <1>10 DEF WaitForCompletion, AfterWait, AfterTimeout, EventOf
<1>11. CASE CancelToken
  BY <1>11 DEF CancelToken, NetworkNotify, EventOf
<1>12. CASE CancelWait
  BY <1>12 DEF CancelWait
<1>13. CASE CancelReturns
  BY <1>13 DEF CancelReturns, AfterCancel, EventOf
<1>14. CASE PostReceive
  BY <1>14 DEF PostReceive
<1>15. CASE Posted
  BY <1>15 DEF Posted
<1>16. CASE RecvCopies
  BY <1>16 DEF RecvCopies
<1>17. CASE RecvEmpty
  BY <1>17 DEF RecvEmpty, MustPost
<1>18. CASE Transmit
  BY <1>18 DEF Transmit
<1>19. CASE Transmitted
  BY <1>19 DEF Transmitted
<1>20. CASE Close
  BY <1>20 DEF Close
<1>21. CASE CloseCall
  BY <1>21 DEF CloseCall
<1>22. CASE Reset
  BY <1>22 DEF Reset, EventOf
<1>23. CASE Release
  BY <1>23 DEF Release, ZeroSocket
<1>24. CASE Poll
  BY <1>24 DEF Poll, FinishReceive, RxCompleted, EndsStream
<1>25. CASE RecvCallback
  BY <1>25 DEF RecvCallback, FinishReceive, RxCompleted, EndsStream
<1>26. CASE SendCallback
  BY <1>26 DEF SendCallback
<1>27. CASE CloseFromMain
  BY <1>27 DEF CloseFromMain
<1>28. CASE FirmwareConnect
  BY <1>28 DEF FirmwareConnect, NetworkNotify, EventOf
<1>29. ASSUME NEW n \in 0 .. RxCapacity, FirmwareReceive(n)
      PROVE  EndSeen'
  BY <1>29 DEF FirmwareReceive, NetworkNotify, EventOf
<1>30. CASE FirmwareReceiveFails
  BY <1>30 DEF FirmwareReceiveFails, NetworkNotify, EventOf
<1>31. CASE FirmwareTransmit
  BY <1>31 DEF FirmwareTransmit, NetworkNotify, EventOf
<1>32. CASE FirmwareClose
  BY <1>32 DEF FirmwareClose, NetworkNotify, EventOf
<1>33. CASE PeerSends
  BY <1>33 DEF PeerSends
<1>34. CASE PeerCloses
  BY <1>34 DEF PeerCloses
<1>35. CASE PeerResets
  BY <1>35 DEF PeerResets
<1>36. CASE UNCHANGED vars
  BY <1>36 DEF vars
<1> QED
  BY <1>1, <1>2, <1>3, <1>4, <1>5, <1>6, <1>7, <1>8, <1>9, <1>10, <1>11,
       <1>12, <1>13, <1>14, <1>15, <1>16, <1>17, <1>18, <1>19, <1>20,
       <1>21, <1>22, <1>23, <1>24, <1>25, <1>26, <1>27, <1>28, <1>29,
       <1>30, <1>31, <1>32, <1>33, <1>34, <1>35, <1>36
  DEF Next, Program, Opening, Waiting, InCall, Closing, Calls, Firmware, Peer

\* CONN_CLOSE stays true once it was reported.
LEMMA EofStep ==
    ASSUME TypeOK, Ownership, RxState, NothingRead, Conserved, EndSeen, EofIsFinal, [Next]_vars
    PROVE  EofIsFinal'
<1> USE SizeAssumption
<1> USE DEF EofIsFinal, EndSeen, NothingRead, Conserved, Unharvested,
            Ownership, RxState, Opened, Fresh, Pristine, InWait, Streaming, RxPosted,
            EFI_ERROR, TypeOK, CtlOK, SocketOK, TokenOK, StreamOK, Tokens,
            ctlVars, rxVars, dataVars, streamVars, callerVars
<1>1. CASE LocateHandles
  BY <1>1 DEF LocateHandles
<1>2. CASE ConnectReturns
  BY <1>2 DEF ConnectReturns
<1>3. CASE MediaMissing
  BY <1>3 DEF MediaMissing
<1>4. CASE OpenOnController
  BY <1>4 DEF OpenOnController, ZeroSocket
<1>5. CASE Acquire
  BY <1>5 DEF Acquire, NextPointer
<1>6. CASE Configure
  BY <1>6 DEF Configure
<1>7. CASE CreateConnectEvent
  BY <1>7 DEF CreateConnectEvent
<1>8. CASE Connect
  BY <1>8 DEF Connect
<1>9. CASE Connected
  BY <1>9 DEF Connected
<1>10. CASE WaitForCompletion
  BY <1>10 DEF WaitForCompletion, AfterWait, AfterTimeout, EventOf
<1>11. CASE CancelToken
  BY <1>11 DEF CancelToken, NetworkNotify, EventOf
<1>12. CASE CancelWait
  BY <1>12 DEF CancelWait
<1>13. CASE CancelReturns
  BY <1>13 DEF CancelReturns, AfterCancel, EventOf
<1>14. CASE PostReceive
  BY <1>14 DEF PostReceive
<1>15. CASE Posted
  BY <1>15 DEF Posted
<1>16. CASE RecvCopies
  BY <1>16 DEF RecvCopies
<1>17. CASE RecvEmpty
  BY <1>17 DEF RecvEmpty, MustPost
<1>18. CASE Transmit
  BY <1>18 DEF Transmit
<1>19. CASE Transmitted
  BY <1>19 DEF Transmitted
<1>20. CASE Close
  BY <1>20 DEF Close
<1>21. CASE CloseCall
  BY <1>21 DEF CloseCall
<1>22. CASE Reset
  BY <1>22 DEF Reset, EventOf
<1>23. CASE Release
  BY <1>23 DEF Release, ZeroSocket
<1>24. CASE Poll
  BY <1>24 DEF Poll, FinishReceive, RxCompleted, EndsStream
<1>25. CASE RecvCallback
  BY <1>25 DEF RecvCallback, FinishReceive, RxCompleted, EndsStream
<1>26. CASE SendCallback
  BY <1>26 DEF SendCallback
<1>27. CASE CloseFromMain
  BY <1>27 DEF CloseFromMain
<1>28. CASE FirmwareConnect
  BY <1>28 DEF FirmwareConnect, NetworkNotify, EventOf
<1>29. ASSUME NEW n \in 0 .. RxCapacity, FirmwareReceive(n)
      PROVE  EofIsFinal'
  BY <1>29 DEF FirmwareReceive, NetworkNotify, EventOf
<1>30. CASE FirmwareReceiveFails
  BY <1>30 DEF FirmwareReceiveFails, NetworkNotify, EventOf
<1>31. CASE FirmwareTransmit
  BY <1>31 DEF FirmwareTransmit, NetworkNotify, EventOf
<1>32. CASE FirmwareClose
  BY <1>32 DEF FirmwareClose, NetworkNotify, EventOf
<1>33. CASE PeerSends
  BY <1>33 DEF PeerSends
<1>34. CASE PeerCloses
  BY <1>34 DEF PeerCloses
<1>35. CASE PeerResets
  BY <1>35 DEF PeerResets
<1>36. CASE UNCHANGED vars
  BY <1>36 DEF vars
<1> QED
  BY <1>1, <1>2, <1>3, <1>4, <1>5, <1>6, <1>7, <1>8, <1>9, <1>10, <1>11,
       <1>12, <1>13, <1>14, <1>15, <1>16, <1>17, <1>18, <1>19, <1>20,
       <1>21, <1>22, <1>23, <1>24, <1>25, <1>26, <1>27, <1>28, <1>29,
       <1>30, <1>31, <1>32, <1>33, <1>34, <1>35, <1>36
  DEF Next, Program, Opening, Waiting, InCall, Closing, Calls, Firmware, Peer

-----------------------------------------------------------------------------
(***************************************************************************)
(* Results.                                                                *)
(***************************************************************************)

\* The inductive invariant holds throughout.
THEOREM Invariance == Spec => []IInv
<1>1. Init => Ownership /\ RxState /\ StreamInv
  <2> SUFFICES ASSUME Init PROVE Ownership /\ RxState /\ StreamInv
    OBVIOUS
  <2> USE DEF Init, Opened, Fresh, Pristine, InWait, Streaming, RxPosted
  <2>1. Ownership
    BY DEF Ownership
  <2>2. RxState
    BY DEF RxState
  <2>3. StreamInv
    BY DEF StreamInv, Conserved, Contents, InOrder, NothingRead, EndSeen,
           EofIsFinal
  <2> QED
    BY <2>1, <2>2, <2>3
<1>2. TypeOK /\ Ownership /\ RxState /\ StreamInv /\ [Next]_vars
        => Ownership' /\ RxState' /\ StreamInv'
  BY OwnershipStep, RxStateStep, NothingReadStep, ConservedStep, ContentsStep,
     InOrderStep, EndSeenStep, EofStep DEF StreamInv
<1> QED
  BY <1>1, <1>2, TypeCorrect, PTL DEF Spec, IInv

\* The receive callback delivers the peer's bytes in order, none twice and none
\* missing, whenever the firmware completes its token: for every buffer size.
THEOREM StreamCorrect == Spec => []StreamIntegrity
<1>1. IInv => StreamIntegrity
  BY DEF IInv, StreamInv, InOrder, Conserved, StreamIntegrity
<1> QED
  BY <1>1, Invariance, PTL

\* CONN_CLOSE tells the reader that it has every byte of a closed stream.
THEOREM EofCorrect == Spec => []EofIsFinal
<1>1. IInv => EofIsFinal
  BY DEF IInv, StreamInv
<1> QED
  BY <1>1, Invariance, PTL

\* Each step of the transport is a step of the byte stream, or none.
LEMMA StreamStep ==
    ASSUME IInv, [Next]_vars
    PROVE  [Stream!Next]_(Stream!vars)
<1> USE DEF Stream!vars, ctlVars, rxVars, dataVars, streamVars, callerVars
<1>1. CASE LocateHandles
  BY <1>1 DEF LocateHandles
<1>2. CASE ConnectReturns
  BY <1>2 DEF ConnectReturns
<1>3. CASE MediaMissing
  BY <1>3 DEF MediaMissing
<1>4. CASE OpenOnController
  BY <1>4 DEF OpenOnController
<1>5. CASE Acquire
  BY <1>5 DEF Acquire
<1>6. CASE Configure
  BY <1>6 DEF Configure
<1>7. CASE CreateConnectEvent
  BY <1>7 DEF CreateConnectEvent
<1>8. CASE Connect
  BY <1>8 DEF Connect
<1>9. CASE Connected
  BY <1>9 DEF Connected
<1>10. CASE WaitForCompletion
  BY <1>10 DEF WaitForCompletion
<1>11. CASE CancelToken
  BY <1>11 DEF CancelToken
<1>12. CASE CancelWait
  BY <1>12 DEF CancelWait
<1>13. CASE CancelReturns
  BY <1>13 DEF CancelReturns, Stream!Next, Stream!NoData
<1>14. CASE PostReceive
  BY <1>14 DEF PostReceive
<1>15. CASE Posted
  BY <1>15 DEF Posted, Stream!Next, Stream!NoData
<1>16. CASE RecvCopies
  <2> USE SizeAssumption
  <2>1. PICK Size \in 1 .. MaxRead :
          delivered' = delivered \o
            [i \in 1 .. Least(Size, RxLength - RxOffset) |-> RxBuffer[RxOffset + i]]
    BY <1>16 DEF RecvCopies
  <2> DEFINE n == Least(Size, RxLength - RxOffset)
  <2>2. n \in 1 .. RxLength - RxOffset
    BY <1>16 DEF RecvCopies, Least, IInv, TypeOK, SocketOK
  <2>3. RxOffset \in Nat /\ RxLength \in Nat /\ Len(delivered) \in Nat
        /\ taken \in 0 .. arrived /\ arrived \in Nat
    BY DEF IInv, TypeOK, SocketOK, StreamOK
  <2>4. /\ \A i \in 1 .. RxLength - RxOffset :
              RxBuffer[RxOffset + i] = Len(delivered) + i
        /\ Len(delivered) + (RxLength - RxOffset) + Unharvested = taken
    BY <1>16 DEF RecvCopies, IInv, StreamInv, Contents, Conserved, Streaming
  <2>5. Unharvested \in Nat
    BY DEF Unharvested, IInv, TypeOK, SocketOK
  <2> HIDE DEF n
  <2>6. n \in 1 .. arrived - Len(delivered)
    BY <2>2, <2>3, <2>4, <2>5
  <2>7. [i \in 1 .. n |-> RxBuffer[RxOffset + i]]
          = [i \in 1 .. n |-> Len(delivered) + i]
    BY <2>2, <2>3, <2>4
  <2>8. delivered' = delivered \o [i \in 1 .. n |-> Len(delivered) + i]
    BY <2>1, <2>7 DEF n
  <2>9. ret' = "BYTES" /\ UNCHANGED <<arrived, fin>>
    BY <1>16 DEF RecvCopies
  <2> QED
    BY <2>6, <2>8, <2>9 DEF Stream!Next, Stream!Read
<1>17. CASE RecvEmpty
  <2>1. CASE EndOfStream
    <3>1. fin /\ arrived = taken
      BY <1>17, <2>1 DEF RecvEmpty, IInv, StreamInv, EndSeen, Streaming
    <3>2. Len(delivered) = taken
      <4>1. Streaming /\ RxLength = 0 /\ RxOffset = 0 /\ ~RxPosted
        BY <1>17, <2>1, SizeAssumption
        DEF RecvEmpty, IInv, RxState, Streaming, RxPosted, TypeOK, SocketOK
      <4> QED
        BY <4>1 DEF IInv, StreamInv, Conserved, Unharvested, TypeOK, StreamOK
    <3>3. ret' = "CONN_CLOSE" /\ UNCHANGED <<arrived, fin, delivered>>
      BY <1>17, <2>1 DEF RecvEmpty, MustPost
    <3> QED
      BY <3>1, <3>2, <3>3 DEF Stream!Next, Stream!EndOfStream
  <2>2. CASE ~EndOfStream
    BY <1>17, <2>2 DEF RecvEmpty, Stream!Next, Stream!NoData
  <2> QED
    BY <2>1, <2>2
<1>18. CASE Transmit
  BY <1>18 DEF Transmit, Stream!Next, Stream!NoData
<1>19. CASE Transmitted
  BY <1>19 DEF Transmitted, Stream!Next, Stream!NoData
<1>20. CASE Close
  BY <1>20 DEF Close
<1>21. CASE CloseCall
  BY <1>21 DEF CloseCall
<1>22. CASE Reset
  BY <1>22 DEF Reset
<1>23. CASE Release
  BY <1>23 DEF Release
<1>24. CASE Poll
  BY <1>24 DEF Poll
<1>25. CASE RecvCallback
  BY <1>25 DEF RecvCallback
<1>26. CASE SendCallback
  BY <1>26 DEF SendCallback
<1>27. CASE CloseFromMain
  BY <1>27 DEF CloseFromMain
<1>28. CASE FirmwareConnect
  <2>1. "connect" \in owned
    BY <1>28 DEF FirmwareConnect, NetworkNotify
  <2>2. delivered = <<>>
    BY <2>1 DEF IInv, Ownership, StreamInv, NothingRead
  <2> QED
    BY <1>28, <2>2 DEF FirmwareConnect, Stream!Next, Stream!Begin
<1>29. ASSUME NEW n \in 0 .. RxCapacity, FirmwareReceive(n)
      PROVE  [Stream!Next]_(Stream!vars)
  BY <1>29 DEF FirmwareReceive
<1>30. CASE FirmwareReceiveFails
  BY <1>30 DEF FirmwareReceiveFails
<1>31. CASE FirmwareTransmit
  BY <1>31 DEF FirmwareTransmit
<1>32. CASE FirmwareClose
  BY <1>32 DEF FirmwareClose
<1>33. CASE PeerSends
  BY <1>33 DEF PeerSends, Stream!Next, Stream!Send
<1>34. CASE PeerCloses
  BY <1>34 DEF PeerCloses, Stream!Next, Stream!End
<1>35. CASE PeerResets
  BY <1>35 DEF PeerResets
<1>36. CASE UNCHANGED vars
  BY <1>36 DEF vars
<1> QED
  BY <1>1, <1>2, <1>3, <1>4, <1>5, <1>6, <1>7, <1>8, <1>9, <1>10, <1>11,
       <1>12, <1>13, <1>14, <1>15, <1>16, <1>17, <1>18, <1>19, <1>20,
       <1>21, <1>22, <1>23, <1>24, <1>25, <1>26, <1>27, <1>28, <1>29,
       <1>30, <1>31, <1>32, <1>33, <1>34, <1>35, <1>36
  DEF Next, Program, Opening, Waiting, InCall, Closing, Calls, Firmware, Peer

\* The transport implements the byte stream that the SSH library reads.
THEOREM Refinement == Spec => ImplementsByteStream
<1>1. Init => Stream!Init
  BY DEF Init, Stream!Init
<1>2. IInv /\ [Next]_vars => [Stream!Next]_(Stream!vars)
  BY StreamStep
<1> QED
  BY <1>1, <1>2, Invariance, PTL DEF Spec, Stream!Spec, ImplementsByteStream

-----------------------------------------------------------------------------
(***************************************************************************)
(* Resources.                                                              *)
(***************************************************************************)

Kept == {"Child", "RxEvent", "TxEvent"}

\* The local ConnectEvent of OpenOnController exists.
Connecting == pc \in {"Connect", "Connected"} \/ (InWait /\ tok = "connect")

\* The socket remembers what exists in the firmware, and got its pointers in order.
Holdings ==
    /\ live \cap Kept = ptr \cap Kept
    /\ "ConnectEvent" \in live <=> Connecting
    /\ "Child" \in ptr => "Binding" \in ptr
    /\ "TxEvent" \in ptr => "RxEvent" \in ptr
    /\ pc \in {"Locate", "NextHandle", "Returned"} => ptr = {}

\* Of a firmware that honours Cancel: what it may hold at which point.
Quiet ==
    CancelHonoured =>
      /\ "connect" \in owned => pc \in {"Wait", "Cancel"} /\ tok = "connect"
      /\ "tx" \in owned => pc \in {"Wait", "Cancel"} /\ tok = "tx" /\ "TxEvent" \notin Done
      /\ "close" \in owned => pc = "Reset" \/ (pc = "Wait" /\ tok = "close")
      /\ pc = "Transmit" => "TxEvent" \notin Done

\* No step loses track of an event or a handle.
LEMMA HoldingsStep ==
    ASSUME TypeOK, Ownership, Holdings, [Next]_vars
    PROVE  Holdings'
<1> USE DEF Holdings, Kept, Connecting, InWait, TypeOK, CtlOK, SocketOK, TokenOK, Tokens,
            Events, ctlVars, rxVars, dataVars, streamVars, callerVars
<1>1. CASE LocateHandles
  BY <1>1 DEF LocateHandles
<1>2. CASE ConnectReturns
  BY <1>2 DEF ConnectReturns
<1>3. CASE MediaMissing
  BY <1>3 DEF MediaMissing
<1>4. CASE OpenOnController
  BY <1>4 DEF OpenOnController, ZeroSocket
<1>5. CASE Acquire
  BY <1>5 DEF Acquire, NextPointer
<1>6. CASE Configure
  BY <1>6 DEF Configure
<1>7. CASE CreateConnectEvent
  BY <1>7 DEF CreateConnectEvent
<1>8. CASE Connect
  BY <1>8 DEF Connect
<1>9. CASE Connected
  BY <1>9 DEF Connected
<1>10. CASE WaitForCompletion
  BY <1>10 DEF WaitForCompletion, AfterWait, AfterTimeout, EventOf
<1>11. CASE CancelToken
  BY <1>11 DEF CancelToken, NetworkNotify, EventOf
<1>12. CASE CancelWait
  BY <1>12 DEF CancelWait
<1>13. CASE CancelReturns
  BY <1>13 DEF CancelReturns, AfterCancel, EventOf
<1>14. CASE PostReceive
  BY <1>14 DEF PostReceive
<1>15. CASE Posted
  BY <1>15 DEF Posted
<1>16. CASE RecvCopies
  BY <1>16 DEF RecvCopies
<1>17. CASE RecvEmpty
  BY <1>17 DEF RecvEmpty, MustPost
<1>18. CASE Transmit
  BY <1>18 DEF Transmit
<1>19. CASE Transmitted
  BY <1>19 DEF Transmitted
<1>20. CASE Close
  BY <1>20 DEF Close
<1>21. CASE CloseCall
  BY <1>21 DEF CloseCall, Ownership
<1>22. CASE Reset
  BY <1>22 DEF Reset, EventOf
<1>23. CASE Release
  BY <1>23 DEF Release, ZeroSocket, Released
<1>24. CASE Poll
  BY <1>24 DEF Poll, FinishReceive
<1>25. CASE RecvCallback
  BY <1>25 DEF RecvCallback, FinishReceive
<1>26. CASE SendCallback
  BY <1>26 DEF SendCallback
<1>27. CASE CloseFromMain
  BY <1>27 DEF CloseFromMain
<1>28. CASE FirmwareConnect
  BY <1>28 DEF FirmwareConnect, NetworkNotify, EventOf
<1>29. ASSUME NEW n \in 0 .. RxCapacity, FirmwareReceive(n)
      PROVE  Holdings'
  BY <1>29 DEF FirmwareReceive, NetworkNotify, EventOf
<1>30. CASE FirmwareReceiveFails
  BY <1>30 DEF FirmwareReceiveFails, NetworkNotify, EventOf
<1>31. CASE FirmwareTransmit
  BY <1>31 DEF FirmwareTransmit, NetworkNotify, EventOf
<1>32. CASE FirmwareClose
  BY <1>32 DEF FirmwareClose, NetworkNotify, EventOf
<1>33. CASE PeerSends
  BY <1>33 DEF PeerSends
<1>34. CASE PeerCloses
  BY <1>34 DEF PeerCloses
<1>35. CASE PeerResets
  BY <1>35 DEF PeerResets
<1>36. CASE UNCHANGED vars
  BY <1>36 DEF vars
<1> QED
  BY <1>1, <1>2, <1>3, <1>4, <1>5, <1>6, <1>7, <1>8, <1>9, <1>10, <1>11,
       <1>12, <1>13, <1>14, <1>15, <1>16, <1>17, <1>18, <1>19, <1>20,
       <1>21, <1>22, <1>23, <1>24, <1>25, <1>26, <1>27, <1>28, <1>29,
       <1>30, <1>31, <1>32, <1>33, <1>34, <1>35, <1>36
  DEF Next, Program, Opening, Waiting, InCall, Closing, Calls, Firmware, Peer

\* No call returns while the firmware still has its token.
LEMMA QuietStep ==
    ASSUME TypeOK, Ownership, RxState, Quiet, [Next]_vars
    PROVE  Quiet'
<1> USE DEF Quiet, Ownership, InWait, TypeOK, CtlOK, TokenOK, Tokens, ctlVars, rxVars,
            dataVars, streamVars, callerVars
<1>1. CASE LocateHandles
  BY <1>1 DEF LocateHandles
<1>2. CASE ConnectReturns
  BY <1>2 DEF ConnectReturns
<1>3. CASE MediaMissing
  BY <1>3 DEF MediaMissing
<1>4. CASE OpenOnController
  BY <1>4 DEF OpenOnController, ZeroSocket
<1>5. CASE Acquire
  BY <1>5 DEF Acquire, NextPointer
<1>6. CASE Configure
  BY <1>6 DEF Configure
<1>7. CASE CreateConnectEvent
  BY <1>7 DEF CreateConnectEvent
<1>8. CASE Connect
  BY <1>8 DEF Connect
<1>9. CASE Connected
  BY <1>9 DEF Connected
<1>10. CASE WaitForCompletion
  BY <1>10 DEF WaitForCompletion, AfterWait, AfterTimeout, EventOf
<1>11. CASE CancelToken
  BY <1>11 DEF CancelToken, NetworkNotify, EventOf
<1>12. CASE CancelWait
  BY <1>12 DEF CancelWait
<1>13. CASE CancelReturns
  BY <1>13 DEF CancelReturns, AfterCancel, EventOf
<1>14. CASE PostReceive
  BY <1>14 DEF PostReceive
<1>15. CASE Posted
  BY <1>15 DEF Posted
<1>16. CASE RecvCopies
  BY <1>16 DEF RecvCopies
<1>17. CASE RecvEmpty
  BY <1>17 DEF RecvEmpty, MustPost
<1>18. CASE Transmit
  BY <1>18 DEF Transmit
<1>19. CASE Transmitted
  BY <1>19 DEF Transmitted
<1>20. CASE Close
  BY <1>20 DEF Close
<1>21. CASE CloseCall
  BY <1>21 DEF CloseCall
<1>22. CASE Reset
  BY <1>22 DEF Reset, EventOf
<1>23. CASE Release
  BY <1>23 DEF Release, ZeroSocket, Released
<1>24. CASE Poll
  BY <1>24 DEF Poll
<1>25. CASE RecvCallback
  BY <1>25 DEF RecvCallback
<1>26. CASE SendCallback
  BY <1>26 DEF SendCallback
<1>27. CASE CloseFromMain
  BY <1>27 DEF CloseFromMain
<1>28. CASE FirmwareConnect
  BY <1>28 DEF FirmwareConnect, NetworkNotify, EventOf
<1>29. ASSUME NEW n \in 0 .. RxCapacity, FirmwareReceive(n)
      PROVE  Quiet'
  BY <1>29 DEF FirmwareReceive, NetworkNotify, EventOf
<1>30. CASE FirmwareReceiveFails
  BY <1>30 DEF FirmwareReceiveFails, NetworkNotify, EventOf
<1>31. CASE FirmwareTransmit
  BY <1>31 DEF FirmwareTransmit, NetworkNotify, EventOf
<1>32. CASE FirmwareClose
  BY <1>32 DEF FirmwareClose, NetworkNotify, EventOf
<1>33. CASE PeerSends
  BY <1>33 DEF PeerSends
<1>34. CASE PeerCloses
  BY <1>34 DEF PeerCloses
<1>35. CASE PeerResets
  BY <1>35 DEF PeerResets
<1>36. CASE UNCHANGED vars
  BY <1>36 DEF vars
<1> QED
  BY <1>1, <1>2, <1>3, <1>4, <1>5, <1>6, <1>7, <1>8, <1>9, <1>10, <1>11,
       <1>12, <1>13, <1>14, <1>15, <1>16, <1>17, <1>18, <1>19, <1>20,
       <1>21, <1>22, <1>23, <1>24, <1>25, <1>26, <1>27, <1>28, <1>29,
       <1>30, <1>31, <1>32, <1>33, <1>34, <1>35, <1>36
  DEF Next, Program, Opening, Waiting, InCall, Closing, Calls, Firmware, Peer

\* Events, handles and tokens are accounted for.
LEMMA Accounted == Spec => [](Holdings /\ Quiet)
<1>1. Init => Holdings /\ Quiet
  BY DEF Init, Holdings, Quiet, Kept, Connecting, InWait
<1>2. IInv /\ Holdings /\ Quiet /\ [Next]_vars => Holdings' /\ Quiet'
  BY HoldingsStep, QuietStep DEF IInv
<1> QED
  BY <1>1, <1>2, Invariance, PTL DEF Spec

\* Whichever step of WolfSshTcp4Connect fails on whichever handle, and after every
\* WolfSshTcp4Close, no event and no child handle is left.
THEOREM LeakFree == Spec => []NothingLeaks
<1>1. TypeOK /\ Holdings => NothingLeaks
  <2> SUFFICES ASSUME TypeOK, Holdings, pc \in {"Locate", "NextHandle", "Returned"}
               PROVE  live = {} /\ ptr = {}
    BY DEF NothingLeaks
  <2>1. live \subseteq Kept \cup {"ConnectEvent"}
    BY DEF TypeOK, TokenOK, Events, Kept
  <2> QED
    BY <2>1 DEF Holdings, Connecting, InWait, Kept
<1> QED
  BY <1>1, Accounted, TypeCorrect, PTL

\* A callback returns with no transmit outstanding, and WolfSshTcp4Close with
\* nothing, if the firmware honours Cancel: no token is used twice.
THEOREM TokensReturned == Spec => []TokensQuiescent
<1>1. IInv /\ Quiet => TokensQuiescent
  <2> SUFFICES ASSUME IInv, Quiet, CancelHonoured
               PROVE  TokensQuiescent
    BY DEF TokensQuiescent
  <2>1. pc = "Idle" => owned \subseteq {"rx"}
    BY DEF Quiet, IInv, TypeOK, TokenOK, Tokens
  <2>2. pc \in {"Idle", "Recv"} /\ "rx" \in owned => RxActive /\ "RxEvent" \notin Done
    BY DEF IInv, RxState, Streaming, RxPosted
  <2>3. pc \in {"NextHandle", "Returned"} => owned = {}
    BY DEF IInv, Ownership
  <2> QED
    BY <2>1, <2>2, <2>3 DEF TokensQuiescent
<1> QED
  BY <1>1, Accounted, Invariance, PTL

\* No event is closed under a firmware that may still signal it, if it honours
\* Cancel.
THEOREM EventsOutliveTokens == Spec => []NoDanglingEvent
<1>1. IInv /\ Holdings /\ Quiet => NoDanglingEvent
  <2> SUFFICES ASSUME IInv, Holdings, Quiet, CancelHonoured, NEW t \in owned
               PROVE  EventOf(t) \in live
    BY DEF NoDanglingEvent
  <2>1. CASE t = "connect"
    BY <2>1 DEF Quiet, Holdings, Connecting, InWait, EventOf
  <2>2. CASE t # "connect"
    <3>1. {"RxEvent", "TxEvent"} \subseteq ptr
      BY DEF IInv, Ownership, Holdings
    <3> QED
      BY <2>2, <3>1 DEF Holdings, Kept, EventOf
  <2> QED
    BY <2>1, <2>2
<1> QED
  BY <1>1, Accounted, Invariance, PTL
=============================================================================
