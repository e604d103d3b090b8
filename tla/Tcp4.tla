-------------------------------- MODULE Tcp4 --------------------------------
(***************************************************************************)
(* The transport of the client (Tcp4.c): one socket over the firmware's    *)
(* EFI_TCP4_PROTOCOL.  The program is sequential; the firmware completes   *)
(* the tokens it was given at any moment, from a timer interrupt, and      *)
(* NetworkNotify then sets the Done flag of the token's event.             *)
(*                                                                         *)
(* The program is a control point pc.  PostReceive, WaitForCompletion,     *)
(* CancelToken and WolfSshTcp4Close are called from several places: tok is *)
(* the token a wait or a cancel is about, from the caller to return to.    *)
(*                                                                         *)
(* A byte is its position in the peer's stream, so that a lost, repeated   *)
(* or reordered byte is visible in the sequence the reader was given.      *)
(***************************************************************************)
EXTENDS Integers, Sequences, FiniteSets

CONSTANTS
    MaxHandles,      \* TCP4 service-binding handles the firmware may report
    MaxBytes,        \* bytes the peer sends on one connection
    RxCapacity,      \* WOLFSSH_UEFI_RX_CAPACITY
    MaxRead,         \* largest Size of a receive callback
    ConfigureRetry,  \* attempts while the address mapping is missing (100)
    ConnectTimeout,  \* WOLFSSH_TCP_CONNECT_TIMEOUT_US
    IoTimeout,       \* WOLFSSH_TCP_IO_TIMEOUT_US
    CancelTimeout,   \* WOLFSSH_TCP_CANCEL_TIMEOUT_US
    CloseTimeout,    \* the 2000000 of WolfSshTcp4Close
    PollDelay,       \* WOLFSSH_TCP_POLL_DELAY_US
    CancelHonoured   \* does Cancel() always complete a token it is given?

ASSUME SizeAssumption ==
    /\ MaxHandles \in Nat /\ MaxBytes \in Nat
    /\ RxCapacity \in Nat \ {0} /\ MaxRead \in Nat \ {0}
    /\ ConfigureRetry \in Nat \ {0}
ASSUME TimeAssumption ==
    /\ ConnectTimeout \in Nat /\ IoTimeout \in Nat
    /\ CancelTimeout \in Nat /\ CloseTimeout \in Nat
    /\ PollDelay \in Nat \ {0}
ASSUME CancelAssumption == CancelHonoured \in BOOLEAN

VARIABLES
    pc,            \* control point of the program
    tok,           \* token being waited for or cancelled
    from,          \* caller of PostReceive or WolfSshTcp4Close
    Remaining,     \* microseconds left in a wait
    Status,        \* the EFI_STATUS local of the function running
    HandlesLeft,   \* Count - Index in WolfSshTcp4Connect
    Retry,         \* Configure attempts made
    ptr,           \* the fields of the socket that are not NULL
    Done,          \* events whose RxDone, TxDone or ConnectDone is TRUE
    RxActive, EndOfStream, LastRxStatus, RxOffset, RxLength, RxBuffer,
    DataLength,    \* RxData.DataLength
    tokStatus,     \* CompletionToken.Status of each token
    live,          \* handles and events that exist in the firmware
    owned,         \* tokens queued in the firmware
    link,          \* the TCP connection
    arrived,       \* bytes the firmware has received on the connection
    taken,         \* bytes it has copied into RxBuffer
    fin,           \* the peer has closed its side
    delivered,     \* every byte given to the reader, in order
    ret            \* what the last callback returned

ctlVars    == <<pc, tok, from, Remaining, Status, HandlesLeft, Retry>>
rxVars     == <<RxActive, EndOfStream, LastRxStatus, RxOffset, RxLength>>
dataVars   == <<RxBuffer, DataLength>>
streamVars == <<arrived, taken, fin>>
callerVars == <<delivered, ret>>
vars == <<ctlVars, ptr, Done, rxVars, dataVars, tokStatus, live, owned, link,
          streamVars, callerVars>>

Events   == {"RxEvent", "TxEvent", "ConnectEvent"}
Tokens   == {"rx", "tx", "connect", "close"}
Statuses == {"SUCCESS", "NOT_READY", "TIMEOUT", "CONNECTION_FIN",
             "CONNECTION_RESET", "ABORTED", "NO_MAPPING", "NOT_FOUND", "ERROR"}
Returns  == {"none", "BYTES", "SENT", "WANT_READ", "CONN_CLOSE", "CONN_RST",
             "GENERAL", "TIMEOUT"}
Points   == {"Locate", "NextHandle", "Acquire", "Configure", "ConnectEvent",
             "Connect", "Connected", "Wait", "Cancel", "CancelWait", "Post",
             "Posted", "Idle", "Recv", "Transmit", "Transmitted", "Close",
             "CloseCall", "Reset", "Release", "Returned"}
Callers  == {"open", "drained", "empty", "main"}

\* The close token is signalled through the transmit event.
EventOf(t) == IF t = "rx" THEN "RxEvent"
              ELSE IF t = "connect" THEN "ConnectEvent"
              ELSE "TxEvent"

EFI_ERROR(s) == s # "SUCCESS"

LeastUnclamped(a, b) == b
Least(a, b) == IF a < b THEN a ELSE b

-----------------------------------------------------------------------------
(***************************************************************************)
(* The firmware.                                                           *)
(***************************************************************************)

\* The token leaves the firmware with status s and its event is signalled.
NetworkNotify(t, s) ==
    /\ t \in owned
    /\ owned' = owned \ {t}
    /\ tokStatus' = [tokStatus EXCEPT ![t] = s]
    /\ Done' = Done \cup {EventOf(t)}

FirmwareConnect ==
    /\ \/ /\ link = "opening"
          /\ NetworkNotify("connect", "SUCCESS")
          /\ link' = "open"
          /\ arrived' = 0 /\ taken' = 0 /\ fin' = FALSE
       \/ /\ NetworkNotify("connect", "ERROR")
          /\ UNCHANGED <<link, streamVars>>
    /\ UNCHANGED <<ctlVars, ptr, rxVars, dataVars, live, callerVars>>

PeerSends ==
    /\ link = "open" /\ ~fin /\ arrived < MaxBytes
    /\ arrived' = arrived + 1
    /\ UNCHANGED <<ctlVars, ptr, Done, rxVars, dataVars, tokStatus, live,
                   owned, link, taken, fin, callerVars>>

PeerCloses ==
    /\ link = "open" /\ ~fin
    /\ fin' = TRUE
    /\ UNCHANGED <<ctlVars, ptr, Done, rxVars, dataVars, tokStatus, live,
                   owned, link, arrived, taken, callerVars>>

PeerResets ==
    /\ link = "open"
    /\ link' = "reset"
    /\ UNCHANGED <<ctlVars, ptr, Done, rxVars, dataVars, tokStatus, live,
                   owned, streamVars, callerVars>>

\* Receive fills the fragment from its start with the next n bytes.  The
\* reader's code provides for a completion without data.
FirmwareReceive(n) ==
    /\ link # "closed"
    /\ n <= arrived - taken
    /\ NetworkNotify("rx", "SUCCESS")
    /\ RxBuffer' = [i \in 1 .. RxCapacity |->
                      IF i <= n THEN taken + i ELSE RxBuffer[i]]
    /\ DataLength' = n
    /\ taken' = taken + n
    /\ UNCHANGED <<ctlVars, ptr, rxVars, live, link, arrived, fin, callerVars>>

FirmwareReceiveFails ==
    /\ \/ fin /\ arrived = taken /\ NetworkNotify("rx", "CONNECTION_FIN")
       \/ link = "reset" /\ NetworkNotify("rx", "CONNECTION_RESET")
       \/ NetworkNotify("rx", "ERROR")
    /\ UNCHANGED <<ctlVars, ptr, rxVars, dataVars, live, link, streamVars,
                   callerVars>>

FirmwareTransmit ==
    /\ \/ link = "open" /\ NetworkNotify("tx", "SUCCESS")
       \/ link = "reset" /\ NetworkNotify("tx", "CONNECTION_RESET")
       \/ NetworkNotify("tx", "ERROR")
    /\ UNCHANGED <<ctlVars, ptr, rxVars, dataVars, live, link, streamVars,
                   callerVars>>

\* An aborted connection returns whatever was still queued.
FirmwareClose ==
    /\ link = "closed"
    /\ \/ NetworkNotify("close", "SUCCESS")
       \/ \E t \in owned \ {"close"} : NetworkNotify(t, "ABORTED")
    /\ UNCHANGED <<ctlVars, ptr, rxVars, dataVars, live, link, streamVars,
                   callerVars>>

Firmware == \/ FirmwareConnect
            \/ \E n \in 0 .. RxCapacity : FirmwareReceive(n)
            \/ FirmwareReceiveFails
            \/ FirmwareTransmit
            \/ FirmwareClose
Peer     == PeerSends \/ PeerCloses \/ PeerResets

-----------------------------------------------------------------------------
(***************************************************************************)
(* Opening: WolfSshTcp4Connect tries each handle with OpenOnController.    *)
(***************************************************************************)

\* ZeroMem of the whole socket; LastRxStatus is set again after it on opening.
ZeroSocket(lastRxStatus) ==
    /\ ptr' = {}
    /\ Done' = Done \ {"RxEvent", "TxEvent"}
    /\ tokStatus' = [tokStatus EXCEPT !["rx"] = "SUCCESS", !["tx"] = "SUCCESS"]
    /\ RxActive' = FALSE /\ EndOfStream' = FALSE
    /\ LastRxStatus' = lastRxStatus
    /\ RxOffset' = 0 /\ RxLength' = 0 /\ DataLength' = 0
    /\ RxBuffer' = [i \in 1 .. RxCapacity |-> 0]

LocateHandles ==
    /\ pc = "Locate"
    /\ \/ /\ pc' = "Returned" /\ Status' = "ERROR" /\ UNCHANGED HandlesLeft
       \/ /\ pc' = "NextHandle" /\ Status' = "NOT_FOUND"
          /\ HandlesLeft' \in 0 .. MaxHandles
    /\ UNCHANGED <<tok, from, Remaining, Retry, ptr, Done, rxVars, dataVars,
                   tokStatus, live, owned, link, streamVars, callerVars>>

ConnectReturns ==
    /\ pc = "NextHandle" /\ HandlesLeft = 0
    /\ pc' = "Returned"
    /\ UNCHANGED <<tok, from, Remaining, Status, HandlesLeft, Retry, ptr, Done,
                   rxVars, dataVars, tokStatus, live, owned, link, streamVars,
                   callerVars>>

MediaMissing ==
    /\ pc = "NextHandle" /\ HandlesLeft > 0
    /\ HandlesLeft' = HandlesLeft - 1
    /\ Status' = "ERROR"
    /\ UNCHANGED <<pc, tok, from, Remaining, Retry, ptr, Done, rxVars, dataVars,
                   tokStatus, live, owned, link, streamVars, callerVars>>

OpenOnController ==
    /\ pc = "NextHandle" /\ HandlesLeft > 0
    /\ HandlesLeft' = HandlesLeft - 1
    /\ ZeroSocket("NOT_READY")
    /\ from' = "open"
    /\ pc' = "Acquire"
    /\ UNCHANGED <<tok, Remaining, Status, Retry, live, owned, link, streamVars,
                   callerVars>>

\* The pointers are obtained in this order, each call may fail.
NextPointer == IF "Binding" \notin ptr THEN "Binding"
               ELSE IF "Child" \notin ptr THEN "Child"
               ELSE IF "Protocol" \notin ptr THEN "Protocol"
               ELSE IF "RxEvent" \notin ptr THEN "RxEvent"
               ELSE "TxEvent"

Acquire ==
    /\ pc = "Acquire"
    /\ \/ /\ ptr' = ptr \cup {NextPointer}
          /\ live' = live \cup ({NextPointer} \cap {"Child", "RxEvent", "TxEvent"})
          /\ pc' = IF NextPointer = "TxEvent" THEN "Configure" ELSE "Acquire"
          /\ UNCHANGED Status
       \/ /\ Status' = "ERROR" /\ pc' = "Close"
          /\ UNCHANGED <<ptr, live>>
    /\ UNCHANGED <<tok, from, Remaining, HandlesLeft, Retry, Done, rxVars,
                   dataVars, tokStatus, owned, link, streamVars, callerVars>>

\* Configure is repeated while the firmware has no address yet.  A local that
\* is dead (Retry here, Status and HandlesLeft below) goes back to its default.
Configure ==
    /\ pc = "Configure"
    /\ \/ /\ pc' = "ConnectEvent" /\ Retry' = 0 /\ UNCHANGED Status
       \/ /\ pc' = "Close" /\ Status' = "ERROR" /\ Retry' = 0
       \/ /\ Retry + 1 < ConfigureRetry
          /\ Retry' = Retry + 1 /\ UNCHANGED <<pc, Status>>
       \/ /\ Retry + 1 = ConfigureRetry
          /\ pc' = "Close" /\ Status' = "NO_MAPPING" /\ Retry' = 0
    /\ UNCHANGED <<tok, from, Remaining, HandlesLeft, ptr, Done, rxVars,
                   dataVars, tokStatus, live, owned, link, streamVars,
                   callerVars>>

CreateConnectEvent ==
    /\ pc = "ConnectEvent"
    /\ Done' = Done \ {"ConnectEvent"}
    /\ \/ /\ live' = live \cup {"ConnectEvent"}
          /\ tokStatus' = [tokStatus EXCEPT !["connect"] = "NOT_READY"]
          /\ pc' = "Connect" /\ UNCHANGED Status
       \/ /\ pc' = "Close" /\ Status' = "ERROR" /\ UNCHANGED <<live, tokStatus>>
    /\ UNCHANGED <<tok, from, Remaining, HandlesLeft, Retry, ptr, rxVars,
                   dataVars, owned, link, streamVars, callerVars>>

Connect ==
    /\ pc = "Connect"
    /\ \/ /\ owned' = owned \cup {"connect"}
          /\ tok' = "connect" /\ Remaining' = ConnectTimeout
          /\ link' = "opening"
          /\ pc' = "Wait" /\ UNCHANGED Status
       \/ /\ Status' = "ERROR" /\ pc' = "Connected"
          /\ UNCHANGED <<owned, tok, Remaining, link>>
    /\ UNCHANGED <<from, HandlesLeft, Retry, ptr, Done, rxVars, dataVars,
                   tokStatus, live, streamVars, callerVars>>

Connected ==
    /\ pc = "Connected"
    /\ live' = live \ {"ConnectEvent"}
    /\ Status' = IF EFI_ERROR(Status) THEN Status ELSE tokStatus["connect"]
    /\ pc' = IF EFI_ERROR(Status') THEN "Close" ELSE "Post"
    /\ UNCHANGED <<tok, from, Remaining, HandlesLeft, Retry, ptr, Done, rxVars,
                   dataVars, tokStatus, owned, link, streamVars, callerVars>>

-----------------------------------------------------------------------------
(***************************************************************************)
(* Waiting for a token and cancelling one.                                 *)
(***************************************************************************)

PollOnceForever == UNCHANGED Remaining
PollOnce == Remaining' = Remaining - Least(Remaining, PollDelay)

\* Where the caller of a wait or a cancel goes on.
CloseWithoutReset(t) == IF t = "connect" THEN "Connected"
                        ELSE IF t = "tx" THEN "Transmitted"
                        ELSE "Release"
AfterWait(t) == IF t = "connect" THEN "Connected"
                ELSE IF t = "tx" THEN "Transmitted"
                ELSE "Reset"
AfterCancel(t) == IF t = "connect" THEN "Connected"
                  ELSE IF t = "tx" THEN "Idle"
                  ELSE "CloseCall"

\* WolfSshTcp4Close ignores the result of its wait, the others cancel.
TimeoutWithoutCancel(t) == AfterWait(t)
AfterTimeout(t) == IF t = "close" THEN AfterWait(t) ELSE "Cancel"

WaitForCompletion ==
    /\ pc = "Wait"
    /\ \/ /\ EventOf(tok) \in Done
          /\ pc' = AfterWait(tok)
          /\ Status' = IF tok = "close" THEN Status ELSE "SUCCESS"
          /\ UNCHANGED Remaining
       \/ /\ EventOf(tok) \notin Done /\ Remaining = 0
          /\ pc' = AfterTimeout(tok)
          /\ Status' = IF tok = "close" THEN Status ELSE "TIMEOUT"
          /\ UNCHANGED Remaining
       \/ /\ EventOf(tok) \notin Done /\ Remaining > 0
          /\ PollOnce /\ UNCHANGED <<pc, Status>>
    /\ UNCHANGED <<tok, from, HandlesLeft, Retry, ptr, Done, rxVars, dataVars,
                   tokStatus, live, owned, link, streamVars, callerVars>>

CancelToken ==
    /\ pc = "Cancel"
    /\ \/ NetworkNotify(tok, "ABORTED")
       \/ /\ tok \notin owned \/ ~CancelHonoured
          /\ UNCHANGED <<owned, tokStatus, Done>>
    /\ Remaining' = CancelTimeout
    /\ pc' = "CancelWait"
    /\ UNCHANGED <<tok, from, Status, HandlesLeft, Retry, ptr, rxVars, dataVars,
                   live, link, streamVars, callerVars>>

CancelWait ==
    /\ pc = "CancelWait"
    /\ EventOf(tok) \notin Done /\ Remaining > 0
    /\ PollOnce
    /\ UNCHANGED <<pc, tok, from, Status, HandlesLeft, Retry, ptr, Done, rxVars,
                   dataVars, tokStatus, live, owned, link, streamVars,
                   callerVars>>

CancelReturns ==
    /\ pc = "CancelWait"
    /\ EventOf(tok) \in Done \/ Remaining = 0
    /\ pc' = AfterCancel(tok)
    /\ ret' = IF tok = "tx" THEN "TIMEOUT" ELSE ret
    /\ RxActive' = (RxActive /\ tok # "rx")
    /\ UNCHANGED <<tok, from, Remaining, Status, HandlesLeft, Retry, ptr, Done,
                   EndOfStream, LastRxStatus, RxOffset, RxLength, dataVars,
                   tokStatus, live, owned, link, streamVars, delivered>>

-----------------------------------------------------------------------------
(***************************************************************************)
(* Receiving.                                                              *)
(***************************************************************************)

\* No caller reaches PostReceive while its early return would apply.
PostReceive ==
    /\ pc = "Post"
    /\ ~RxActive /\ ~EndOfStream
    /\ tokStatus' = [tokStatus EXCEPT !["rx"] = "NOT_READY"]
    /\ Done' = Done \ {"RxEvent"}
    /\ RxOffset' = 0 /\ RxLength' = 0
    /\ DataLength' = RxCapacity
    /\ \/ /\ Status' = "SUCCESS" /\ owned' = owned \cup {"rx"}
       \/ /\ \/ Status' = "CONNECTION_FIN" /\ fin /\ arrived = taken
             \/ Status' = "CONNECTION_RESET" /\ link = "reset"
             \/ Status' = "ERROR"
          /\ UNCHANGED owned
    /\ pc' = "Posted"
    /\ UNCHANGED <<tok, from, Remaining, HandlesLeft, Retry, ptr, RxActive,
                   EndOfStream, LastRxStatus, RxBuffer, live, link, streamVars,
                   callerVars>>

\* After Receive() returns: the tail of PostReceive and of its three callers.
Posted ==
    /\ pc = "Posted"
    /\ RxActive' = ~EFI_ERROR(Status)
    /\ \/ /\ from = "open"
          /\ IF EFI_ERROR(Status)
             THEN pc' = "Close" /\ UNCHANGED <<Status, HandlesLeft>>
             ELSE pc' = "Idle" /\ HandlesLeft' = 0 /\ UNCHANGED Status
          /\ UNCHANGED <<LastRxStatus, ret>>
       \/ /\ from = "drained"
          /\ LastRxStatus' = IF EFI_ERROR(Status) THEN Status ELSE LastRxStatus
          /\ pc' = "Idle" /\ Status' = "SUCCESS"
          /\ UNCHANGED <<HandlesLeft, ret>>
       \/ /\ from = "empty"
          /\ ret' = IF EFI_ERROR(Status) THEN "GENERAL" ELSE "WANT_READ"
          /\ pc' = "Idle" /\ Status' = "SUCCESS"
          /\ UNCHANGED <<HandlesLeft, LastRxStatus>>
    /\ UNCHANGED <<tok, from, Remaining, Retry, ptr, Done,
                   EndOfStream, RxOffset, RxLength, dataVars, tokStatus, live,
                   owned, link, streamVars, delivered>>

RxDoneOnly  == "RxEvent" \in Done
RxCompleted == RxActive /\ "RxEvent" \in Done

AnyErrorEnds(s) == EFI_ERROR(s)
EndsStream(s)   == s = "CONNECTION_FIN"

FinishReceive ==
    IF RxCompleted
    THEN /\ RxActive' = FALSE
         /\ LastRxStatus' = tokStatus["rx"]
         /\ EndOfStream' = (EndOfStream \/ EndsStream(tokStatus["rx"]))
         /\ IF tokStatus["rx"] = "SUCCESS"
            THEN RxOffset' = 0 /\ RxLength' = DataLength
            ELSE UNCHANGED <<RxOffset, RxLength>>
    ELSE UNCHANGED rxVars

Poll ==
    /\ pc = "Idle"
    /\ FinishReceive
    /\ UNCHANGED <<ctlVars, ptr, Done, dataVars, tokStatus, live, owned, link,
                   streamVars, callerVars>>

RecvCallback ==
    /\ pc = "Idle"
    /\ FinishReceive
    /\ pc' = "Recv"
    /\ UNCHANGED <<tok, from, Remaining, Status, HandlesLeft, Retry, ptr, Done,
                   dataVars, tokStatus, live, owned, link, streamVars,
                   callerVars>>

RecvCopies ==
    /\ pc = "Recv" /\ RxLength > RxOffset
    /\ \E Size \in 1 .. MaxRead :
          LET CopyLength == Least(Size, RxLength - RxOffset)
              drained    == RxOffset + CopyLength = RxLength
          IN  /\ delivered' = delivered \o
                    [i \in 1 .. CopyLength |-> RxBuffer[RxOffset + i]]
              /\ RxOffset' = IF drained THEN 0 ELSE RxOffset + CopyLength
              /\ RxLength' = IF drained THEN 0 ELSE RxLength
              /\ pc'   = IF drained THEN "Post" ELSE "Idle"
              /\ from' = IF drained THEN "drained" ELSE from
    /\ ret' = "BYTES"
    /\ UNCHANGED <<tok, Remaining, Status, HandlesLeft, Retry, ptr, Done,
                   RxActive, EndOfStream, LastRxStatus, dataVars, tokStatus,
                   live, owned, link, streamVars>>

\* LastRxStatus is NOT_READY until the first receive completes.
RxFailed == EFI_ERROR(LastRxStatus) /\ LastRxStatus # "NOT_READY"

\* The receive completed without data and has to be posted again.
NeverPost == FALSE
MustPost  == ~RxActive

RecvEmpty ==
    /\ pc = "Recv" /\ RxLength <= RxOffset
    /\ \/ /\ EndOfStream
          /\ ret' = "CONN_CLOSE" /\ pc' = "Idle" /\ UNCHANGED from
       \/ /\ ~EndOfStream /\ RxFailed
          /\ ret' = IF LastRxStatus = "CONNECTION_RESET"
                    THEN "CONN_RST" ELSE "GENERAL"
          /\ pc' = "Idle" /\ UNCHANGED from
       \/ /\ ~EndOfStream /\ ~RxFailed /\ MustPost
          /\ pc' = "Post" /\ from' = "empty" /\ UNCHANGED ret
       \/ /\ ~EndOfStream /\ ~RxFailed /\ ~MustPost
          /\ ret' = "WANT_READ" /\ pc' = "Idle" /\ UNCHANGED from
    /\ UNCHANGED <<tok, Remaining, Status, HandlesLeft, Retry, ptr, Done, rxVars,
                   dataVars, tokStatus, live, owned, link, streamVars,
                   delivered>>

-----------------------------------------------------------------------------
(***************************************************************************)
(* Sending: one transmit token, always waited for.                         *)
(***************************************************************************)

SendCallback ==
    /\ pc = "Idle"
    /\ tokStatus' = [tokStatus EXCEPT !["tx"] = "NOT_READY"]
    /\ Done' = Done \ {"TxEvent"}
    /\ pc' = "Transmit"
    /\ UNCHANGED <<tok, from, Remaining, Status, HandlesLeft, Retry, ptr, rxVars,
                   dataVars, live, owned, link, streamVars, callerVars>>

\* The firmware refuses a token whose event is in use by one it still holds.
EventFree(t) == \A u \in owned : EventOf(u) # EventOf(t)

Transmit ==
    /\ pc = "Transmit"
    /\ \/ /\ EventFree("tx")
          /\ owned' = owned \cup {"tx"}
          /\ tok' = "tx" /\ Remaining' = IoTimeout
          /\ pc' = "Wait" /\ UNCHANGED ret
       \/ /\ ret' = "GENERAL" /\ pc' = "Idle"
          /\ UNCHANGED <<owned, tok, Remaining>>
    /\ UNCHANGED <<from, Status, HandlesLeft, Retry, ptr, Done, rxVars, dataVars,
                   tokStatus, live, link, streamVars, delivered>>

Transmitted ==
    /\ pc = "Transmitted"
    /\ ret' = IF tokStatus["tx"] = "CONNECTION_RESET" THEN "CONN_RST"
              ELSE IF tokStatus["tx"] = "SUCCESS" THEN "SENT"
              ELSE "GENERAL"
    /\ pc' = "Idle"
    /\ UNCHANGED <<tok, from, Remaining, Status, HandlesLeft, Retry, ptr, Done,
                   rxVars, dataVars, tokStatus, live, owned, link, streamVars,
                   delivered>>

-----------------------------------------------------------------------------
(***************************************************************************)
(* Closing: WolfSshTcp4Close, from UefiMain or from a failed open.         *)
(***************************************************************************)

CloseFromMain ==
    /\ pc = "Idle"
    /\ pc' = "Close" /\ from' = "main"
    /\ UNCHANGED <<tok, Remaining, Status, HandlesLeft, Retry, ptr, Done, rxVars,
                   dataVars, tokStatus, live, owned, link, streamVars,
                   callerVars>>

Close ==
    /\ pc = "Close"
    /\ IF "Protocol" \in ptr /\ RxActive /\ "RxEvent" \notin Done
       THEN pc' = "Cancel" /\ tok' = "rx"
       ELSE pc' = "CloseCall" /\ UNCHANGED tok
    /\ UNCHANGED <<from, Remaining, Status, HandlesLeft, Retry, ptr, Done, rxVars,
                   dataVars, tokStatus, live, owned, link, streamVars,
                   callerVars>>

CloseCall ==
    /\ pc = "CloseCall"
    /\ \/ /\ {"Protocol", "TxEvent"} \subseteq ptr
          /\ Done' = Done \ {"TxEvent"}
          /\ tokStatus' = [tokStatus EXCEPT !["close"] = "NOT_READY"]
          /\ \/ /\ EventFree("close")
                /\ owned' = owned \cup {"close"} /\ link' = "closed"
                /\ tok' = "close" /\ Remaining' = CloseTimeout
                /\ pc' = "Wait"
             \/ /\ pc' = "Reset"
                /\ UNCHANGED <<owned, link, tok, Remaining>>
       \/ /\ ~({"Protocol", "TxEvent"} \subseteq ptr)
          /\ pc' = "Release"
          /\ UNCHANGED <<Done, tokStatus, owned, link, tok, Remaining>>
    /\ UNCHANGED <<from, Status, HandlesLeft, Retry, ptr, rxVars, dataVars, live,
                   streamVars, callerVars>>

\* Configure (NULL) aborts every token the firmware still holds.
Reset ==
    /\ pc = "Reset"
    /\ tokStatus' = [t \in Tokens |->
                       IF t \in owned THEN "ABORTED" ELSE tokStatus[t]]
    /\ Done' = Done \cup {EventOf(t) : t \in owned}
    /\ owned' = {}
    /\ link' = "closed"
    /\ pc' = "Release"
    /\ UNCHANGED <<tok, from, Remaining, Status, HandlesLeft, Retry, ptr, rxVars,
                   dataVars, live, streamVars, callerVars>>

\* DestroyChild and CloseEvent twice, each only for a pointer that was set.
ReleasedWithoutRx == ptr \cap {"TxEvent", "Child"}
Released == (ptr \cap {"RxEvent", "TxEvent"})
              \cup (IF "Binding" \in ptr THEN ptr \cap {"Child"} ELSE {})

Release ==
    /\ pc = "Release"
    /\ live' = live \ Released
    /\ ZeroSocket("SUCCESS")
    /\ pc' = IF from = "open" THEN "NextHandle" ELSE "Returned"
    /\ UNCHANGED <<tok, from, Remaining, Status, HandlesLeft, Retry, owned, link,
                   streamVars, callerVars>>

-----------------------------------------------------------------------------
Init ==
    /\ pc = "Locate" /\ tok = "connect" /\ from = "open"
    /\ Remaining = 0 /\ Status = "SUCCESS" /\ HandlesLeft = 0 /\ Retry = 0
    /\ ptr = {}
    /\ Done = {}
    /\ RxActive = FALSE /\ EndOfStream = FALSE /\ LastRxStatus = "SUCCESS"
    /\ RxOffset = 0 /\ RxLength = 0
    /\ RxBuffer = [i \in 1 .. RxCapacity |-> 0] /\ DataLength = 0
    /\ tokStatus = [t \in Tokens |-> "SUCCESS"]
    /\ live = {} /\ owned = {} /\ link = "closed"
    /\ arrived = 0 /\ taken = 0 /\ fin = FALSE
    /\ delivered = <<>> /\ ret = "none"

Opening == LocateHandles \/ ConnectReturns \/ MediaMissing \/ OpenOnController
             \/ Acquire \/ Configure \/ CreateConnectEvent \/ Connect \/ Connected
Waiting == WaitForCompletion \/ CancelToken \/ CancelWait \/ CancelReturns
Calls   == Poll \/ RecvCallback \/ SendCallback \/ CloseFromMain
InCall  == PostReceive \/ Posted \/ RecvCopies \/ RecvEmpty \/ Transmit
             \/ Transmitted
Closing == Close \/ CloseCall \/ Reset \/ Release

\* Once it runs, every function of Tcp4.c runs on to its return.
Program == Opening \/ Waiting \/ InCall \/ Closing

Next == Program \/ Calls \/ Firmware \/ Peer

Spec == Init /\ [][Next]_vars

\* The processor does not stop.
FairSpec == Spec /\ WF_vars(Program)

\* The session loop reads in each of its rounds, and a firmware that is given
\* a buffer again and again while it holds bytes fills one with them.
ReadingSpec ==
    /\ FairSpec
    /\ SF_vars(RecvCallback)
    /\ SF_vars(\E n \in 1 .. RxCapacity : FirmwareReceive(n))

-----------------------------------------------------------------------------
(***************************************************************************)
(* Properties.                                                             *)
(***************************************************************************)

CtlOK ==
    /\ pc \in Points /\ tok \in Tokens /\ from \in Callers
    /\ Remaining \in Nat /\ Status \in Statuses
    /\ HandlesLeft \in 0 .. MaxHandles /\ Retry \in 0 .. ConfigureRetry
SocketOK ==
    /\ ptr \subseteq {"Binding", "Child", "Protocol", "RxEvent", "TxEvent"}
    /\ LastRxStatus \in Statuses
    /\ RxLength \in 0 .. RxCapacity /\ RxOffset \in 0 .. RxLength
    /\ RxBuffer \in [1 .. RxCapacity -> Nat] /\ DataLength \in 0 .. RxCapacity
TokenOK ==
    /\ Done \subseteq Events
    /\ tokStatus \in [Tokens -> Statuses]
    /\ live \subseteq (Events \cup {"Child"}) /\ owned \subseteq Tokens
StreamOK ==
    /\ link \in {"closed", "opening", "open", "reset"}
    /\ arrived \in 0 .. MaxBytes /\ taken \in 0 .. arrived
    /\ delivered \in Seq(Nat) /\ ret \in Returns
FlagsOK == RxActive \in BOOLEAN /\ EndOfStream \in BOOLEAN /\ fin \in BOOLEAN

\* Every variable has its type; waits never run below zero although the last
\* Stall may be shorter than the poll delay, and no read goes past RxBuffer.
TypeOK == CtlOK /\ SocketOK /\ TokenOK /\ StreamOK /\ FlagsOK

\* The points at which the connection is open to callbacks.
Streaming == \/ pc \in {"Idle", "Recv", "Post", "Posted", "Transmit",
                         "Transmitted"}
             \/ pc \in {"Wait", "Cancel", "CancelWait"} /\ tok = "tx"

\* A receive that the firmware has completed and FinishReceive has not seen.
RxPosted == RxActive \/ (pc = "Posted" /\ ~EFI_ERROR(Status))
Unharvested == IF RxPosted /\ "rx" \notin owned /\ tokStatus["rx"] = "SUCCESS"
               THEN DataLength ELSE 0

\* The receive callback gives the reader the peer's bytes in order, none twice
\* and none missing: what was delivered, what is unread in RxBuffer and what
\* the firmware has put there since add up to what the firmware took from the
\* stream, whenever it completes the token.
StreamIntegrity ==
    /\ \A i \in 1 .. Len(delivered) : delivered[i] = i
    /\ Streaming =>
         Len(delivered) + (RxLength - RxOffset) + Unharvested = taken

\* A token of the firmware is never in the program's hands: callbacks return
\* with no transmit outstanding, a receive that is outstanding is the one the
\* socket remembers, and WolfSshTcp4Close leaves nothing behind.  Only for a
\* firmware that honours Cancel.
TokensQuiescent ==
    CancelHonoured =>
      /\ pc = "Idle" => owned \subseteq {"rx"}
      /\ pc \in {"Idle", "Recv"} /\ "rx" \in owned =>
           RxActive /\ "RxEvent" \notin Done
      /\ pc \in {"NextHandle", "Returned"} => owned = {}

\* No event is closed while the firmware may still signal it (CloseEvent of
\* the local ConnectEvent, and of both events in WolfSshTcp4Close).
NoDanglingEvent ==
    CancelHonoured => \A t \in owned : EventOf(t) \in live

\* WolfSshTcp4Connect moves on to the next handle, and returns an error, only
\* with every event and child handle released whichever step failed; a
\* returned WolfSshTcp4Close leaves none either.
NothingLeaks ==
    pc \in {"Locate", "NextHandle", "Returned"} => live = {} /\ ptr = {}

\* CONN_CLOSE is reported only when the peer has closed and each of its bytes
\* was delivered, even if the close overtakes a read in progress.
EofIsFinal == ret = "CONN_CLOSE" => fin /\ Len(delivered) = arrived

\* Every call returns: all waits are bounded, with whatever the firmware does.
CallsReturn == []<>(pc \in {"Idle", "Returned"})

\* A reader that keeps reading gets every byte that arrived, unless the
\* connection is reset or closed or a receive fails.
ReadsEveryByte ==
    \A n \in 1 .. MaxBytes :
       (pc = "Idle" /\ arrived >= n)
          ~> \/ Len(delivered) >= n
             \/ link # "open" \/ from = "main"
             \/ RxFailed \/ ret = "GENERAL"

\* The transport implements the byte stream the SSH library reads.
Stream == INSTANCE ByteStream WITH sent <- arrived, ended <- fin,
                                   out <- delivered, answer <- ret
ImplementsByteStream == Stream!Spec
=============================================================================
