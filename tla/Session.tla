------------------------------- MODULE Session -------------------------------
(***************************************************************************)
(* The program around the SSH library (Main.c): UefiMain acquires its      *)
(* resources one after the other, ConnectWolfSsh drives the handshake,     *)
(* RunInteractiveSession is the terminal loop, and the cleanup releases    *)
(* whatever had been acquired.                                             *)
(*                                                                         *)
(* wolfSSH is external.  A call yields "data", "zero" or an error; an      *)
(* error is also what wolfSSH_get_error returns from then on, so that err  *)
(* is stale after a call that does not fail.                               *)
(*                                                                         *)
(* A byte for the server is its number in the order in which replies and   *)
(* keys were taken from the terminal.                                      *)
(***************************************************************************)
EXTENDS Integers, Sequences

CONSTANTS
    ConnectLimit,    \* SSH_CONNECT_RETRY_LIMIT
    SendLimit,       \* SSH_SEND_RETRY_LIMIT
    ShutdownLimit,   \* the 200 of BestEffortShutdown
    BurstLimit,      \* the 32 reads of one round
    MaxBuffer,       \* longest reply or key sequence
    MaxExtended,     \* reads that empty the extended data buffer
    MaxKeys,         \* keys the user presses
    MaxOutput        \* bytes after which the server asks for no more replies

ASSUME LimitAssumption ==
    /\ ConnectLimit \in Nat \ {0} /\ SendLimit \in Nat
    /\ ShutdownLimit \in Nat \ {0} /\ BurstLimit \in Nat \ {0}
    /\ MaxBuffer \in Nat \ {0} /\ MaxExtended \in Nat
    /\ MaxKeys \in Nat /\ MaxOutput \in Nat

VARIABLES
    pc,          \* control point
    Status,      \* the EFI_STATUS to be returned
    held,        \* resources acquired and not released
    secret,      \* Options.Password is not zero
    WolfSshInitialized,
    err,         \* what wolfSSH_get_error returns
    Retry,       \* the counter of the retry loop running
    ReadBurst, Activity, Finished,
    ext,         \* reads left in the extended data buffer
    reply,       \* bytes queued by the terminal as a reply
    sender,      \* caller of SendAll
    Length, Offset,
    keyboard,    \* keys pressed and not read
    pressed,     \* number of keys pressed so far
    issued,      \* bytes given to SendAll
    accepted,    \* bytes wolfSSH accepted, in order
    failure      \* the failure of the session, and the bytes of reply then queued

loopVars == <<ReadBurst, Activity, Finished, ext, reply>>
sendVars == <<sender, Length, Offset, issued, accepted>>
userVars == <<keyboard, pressed>>
mainVars == <<held, secret, WolfSshInitialized>>
vars == <<pc, Status, err, Retry, failure, loopVars, sendVars, userVars, mainVars>>

Resources == {"wolfSSH", "socket", "Context", "Ssh", "Terminal"}
Ends      == {"EOF", "CHANNEL_CLOSED", "SOCKET_ERROR_E"}
Errors    == {"WANT_READ", "WANT_WRITE", "WINDOW_FULL", "REKEYING", "EXTDATA",
              "OTHER"} \cup Ends
Statuses  == {"SUCCESS", "INVALID_PARAMETER", "UNSUPPORTED", "DEVICE_ERROR",
              "OUT_OF_RESOURCES", "PROTOCOL_ERROR", "TIMEOUT"}
Failures  == [kind : {"none", "transport", "receive", "drain", "redrained", "send",
                      "key"}, pending : 0 .. MaxBuffer]
NoFailure == [kind |-> "none", pending |-> 0]

IsRetryableError(e) == e \in {"WANT_READ", "WANT_WRITE", "WINDOW_FULL", "REKEYING"}

\* The error a caller sees after a call with result r.
GetError(r) == IF r \in Errors THEN r ELSE err

-----------------------------------------------------------------------------
(***************************************************************************)
(* UefiMain: acquiring.                                                    *)
(***************************************************************************)

\* WolfSshParseArguments may find a password, also before it finds an error.
Parsed == secret' \in IF pc = "Parse" THEN BOOLEAN ELSE {secret}

\* The steps in order, what each acquires and what it returns when it fails.
NextStep == [Parse |-> "Random", Random |-> "Init", Init |-> "Tcp",
             Tcp |-> "Context", Context |-> "Ssh", Ssh |-> "Username",
             Username |-> "Channel", Channel |-> "Connect"]
Acquires == [Parse |-> {}, Random |-> {}, Init |-> {"wolfSSH"},
             Tcp |-> {"socket"}, Context |-> {"Context"}, Ssh |-> {"Ssh"},
             Username |-> {}, Channel |-> {}]
FailsWith == [Parse |-> {"INVALID_PARAMETER"}, Random |-> {"UNSUPPORTED"},
              Init |-> {"DEVICE_ERROR"},
              Tcp |-> {"TIMEOUT", "DEVICE_ERROR", "OUT_OF_RESOURCES"},
              Context |-> {"OUT_OF_RESOURCES"}, Ssh |-> {"OUT_OF_RESOURCES"},
              Username |-> {"INVALID_PARAMETER"}, Channel |-> {"PROTOCOL_ERROR"}]
Steps == DOMAIN NextStep

StepSucceeds ==
    /\ pc \in Steps
    /\ pc' = NextStep[pc]
    /\ held' = held \cup Acquires[pc]
    /\ WolfSshInitialized' = (WolfSshInitialized \/ pc = "Init")
    /\ Status' = "SUCCESS"
    /\ Parsed
    /\ UNCHANGED <<err, Retry, failure, loopVars, sendVars, userVars>>

\* Up to wolfSSH_Init a failure returns at once, later it goes to Cleanup.
ReturnWithoutContext ==
    IF pc \in {"Parse", "Random", "Init", "Context"} THEN "Returned" ELSE "Cleanup"
AfterFailure ==
    IF pc \in {"Parse", "Random", "Init"} THEN "Returned" ELSE "Cleanup"

StepFails ==
    /\ pc \in Steps
    /\ Status' \in FailsWith[pc]
    /\ pc' = AfterFailure
    /\ Parsed
    /\ UNCHANGED <<err, Retry, failure, loopVars, sendVars, userVars, held,
                   WolfSshInitialized>>

Help ==
    /\ pc = "Random"
    /\ pc' = "Returned"
    /\ UNCHANGED <<Status, err, Retry, failure, loopVars, sendVars, userVars,
                   mainVars>>

SelfTest ==
    /\ pc = "Tcp"
    /\ pc' = "Cleanup" /\ Status' \in {"SUCCESS", "OUT_OF_RESOURCES"}
    /\ UNCHANGED <<err, Retry, failure, loopVars, sendVars, userVars, mainVars>>

-----------------------------------------------------------------------------
(***************************************************************************)
(* ConnectWolfSsh.                                                         *)
(***************************************************************************)

SameRetry == Retry
NextRetry == Retry + 1

\* wolfSSH_connect calls back for the password, which may be prompted for.
ConnectWolfSsh ==
    /\ pc = "Connect"
    /\ secret' \in {secret, TRUE}
    /\ \/ /\ pc' = "Create" /\ Retry' = 0 /\ UNCHANGED <<err, Status>>
       \/ \E e \in Errors :
             /\ err' = e
             /\ IF ~IsRetryableError(e)
                THEN pc' = "Cleanup" /\ Status' = "PROTOCOL_ERROR" /\ Retry' = 0
                ELSE IF NextRetry < ConnectLimit
                THEN Retry' = NextRetry /\ UNCHANGED <<pc, Status>>
                ELSE pc' = "Cleanup" /\ Status' = "TIMEOUT" /\ Retry' = 0
    /\ UNCHANGED <<failure, loopVars, sendVars, userVars, held,
                   WolfSshInitialized>>

-----------------------------------------------------------------------------
(***************************************************************************)
(* RunInteractiveSession: one round reads, replies, then sends keys.       *)
(***************************************************************************)

CreateTerminal ==
    /\ pc = "Create"
    /\ \/ /\ held' = held \cup {"Terminal"}
          /\ Status' = "SUCCESS" /\ Finished' = FALSE /\ pc' = "Round"
       \/ /\ Status' = "OUT_OF_RESOURCES" /\ pc' = "Cleanup"
          /\ UNCHANGED <<held, Finished>>
    /\ UNCHANGED <<err, Retry, failure, ReadBurst, Activity, ext, reply, sendVars,
                   userVars, secret, WolfSshInitialized>>

Round ==
    /\ pc = "Round" /\ ~Finished
    /\ pc' = "Read" /\ ReadBurst' = 0 /\ Activity' = FALSE
    /\ UNCHANGED <<Status, err, Retry, failure, Finished, ext, reply, sendVars,
                   userVars, mainVars>>

SessionEnds ==
    /\ pc = "Round" /\ Finished
    /\ held' = held \ {"Terminal"}
    /\ pc' = "Cleanup"
    /\ UNCHANGED <<Status, err, Retry, failure, loopVars, sendVars, userVars, secret,
                   WolfSshInitialized>>

\* WolfSshTerminalFeed may queue a reply.
Feed == reply' \in reply .. (IF issued < MaxOutput THEN MaxBuffer ELSE reply)

UncountedRead == ReadBurst
CountedRead   == ReadBurst + 1

Reading == pc = "Read" /\ ReadBurst < BurstLimit

\* The history of a failed drain, after which the burst goes on: it may queue more
\* replies, and another drain may succeed.
FedAfterDrain ==
    failure' = IF failure.kind = "drain" THEN [failure EXCEPT !.pending = reply']
                                         ELSE failure
DrainedAgain ==
    failure' = IF failure.kind = "drain" THEN [failure EXCEPT !.kind = "redrained"]
                                         ELSE failure

ReadData ==
    /\ Reading
    /\ Feed /\ FedAfterDrain
    /\ Activity' = TRUE /\ ReadBurst' = CountedRead
    /\ UNCHANGED <<pc, Status, err, Retry, Finished, ext, sendVars, userVars,
                   mainVars>>

\* A result of zero leaves the decision to the error of an earlier call.
ReadExtended ==
    /\ Reading
    /\ \E r \in Errors \cup {"zero"} :
          GetError(r) = "EXTDATA" /\ err' = "EXTDATA"
    /\ ext' \in 0 .. MaxExtended
    /\ Activity' = TRUE /\ ReadBurst' = CountedRead
    /\ pc' = "Drain"
    /\ UNCHANGED <<Status, Retry, failure, Finished, reply, sendVars, userVars,
                   mainVars>>

\* A lost connection ends the session like its regular end: Status stays.
ReadEnds ==
    /\ Reading
    /\ \E r \in Errors \cup {"zero"} :
          GetError(r) \in Ends /\ err' = GetError(r)
    /\ Finished' = TRUE
    /\ failure' = IF err' = "SOCKET_ERROR_E" /\ failure.kind # "drain"
                  THEN [kind |-> "transport", pending |-> reply] ELSE failure
    /\ pc' = "Replies"
    /\ UNCHANGED <<Status, Retry, ReadBurst, Activity, ext, reply, sendVars,
                   userVars, mainVars>>

\* wolfSSH_worker goes on with the key exchange and may leave another error.
ReadRekeys ==
    /\ Reading
    /\ \E r \in Errors \cup {"zero"} : GetError(r) = "REKEYING"
    /\ err' \in Errors
    /\ Activity' = TRUE /\ ReadBurst' = CountedRead
    /\ UNCHANGED <<pc, Status, Retry, failure, Finished, ext, reply, sendVars,
                   userVars, mainVars>>

ReadIdle ==
    /\ Reading
    /\ \E r \in Errors \cup {"zero"} :
          /\ GetError(r) \notin Ends \cup {"EXTDATA", "REKEYING"}
          /\ GetError(r) \in {"WANT_READ", "WANT_WRITE"} \/ r = "zero"
          /\ err' = GetError(r)
    /\ pc' = "Replies"
    /\ UNCHANGED <<Status, Retry, failure, loopVars, sendVars, userVars, mainVars>>

ReadFails ==
    /\ Reading
    /\ \E r \in {"WINDOW_FULL", "OTHER"} : err' = r
    /\ Status' = "PROTOCOL_ERROR" /\ Finished' = TRUE
    /\ failure' = [kind |-> "receive", pending |-> reply]
    /\ pc' = "Replies"
    /\ UNCHANGED <<Retry, ReadBurst, Activity, ext, reply, sendVars, userVars,
                   mainVars>>

BurstEnds ==
    /\ pc = "Read" /\ ReadBurst = BurstLimit
    /\ pc' = "Replies"
    /\ UNCHANGED <<Status, err, Retry, failure, loopVars, sendVars, userVars,
                   mainVars>>

\* After a failure the burst goes on, with Finished set.
DrainExtendedData ==
    /\ pc = "Drain"
    /\ \/ /\ ext > 0 /\ ext' = ext - 1
          /\ Feed /\ FedAfterDrain
          /\ UNCHANGED <<pc, Status, err, Finished>>
       \/ /\ \E r \in Errors \cup {"zero"} :
                err' = GetError(r) /\ (r = "zero" \/ IsRetryableError(r))
          /\ Status' = "SUCCESS" /\ pc' = "Read" /\ ext' = 0
          /\ DrainedAgain
          /\ UNCHANGED <<Finished, reply>>
       \/ /\ \E r \in Errors : err' = r /\ ~IsRetryableError(r)
          /\ Status' = "DEVICE_ERROR" /\ Finished' = TRUE
          /\ failure' = [kind |-> "drain", pending |-> reply]
          /\ pc' = "Read" /\ ext' = 0
          /\ UNCHANGED reply
    /\ UNCHANGED <<Retry, ReadBurst, Activity, sendVars, userVars, mainVars>>

\* SendAll of a buffer of n bytes starts.
Issue(n, who) ==
    /\ issued' = issued + n
    /\ Length' = n /\ Offset' = 0 /\ sender' = who
    /\ Retry' = 0
    /\ pc' = "Send"
    /\ UNCHANGED accepted

KeysEvenIfFinished == "Keys"
AfterReplies == IF Finished THEN "Round" ELSE "Keys"

TakeResponse ==
    /\ pc = "Replies"
    /\ \/ /\ reply > 0 /\ reply' = 0
          /\ Issue(reply, "reply")
       \/ /\ reply = 0 /\ pc' = AfterReplies
          /\ UNCHANGED <<Retry, reply, sendVars>>
    /\ UNCHANGED <<Status, err, failure, ReadBurst, Activity, Finished, ext,
                   userVars, mainVars>>

NoKey ==
    /\ pc = "Keys"
    /\ \/ keyboard = <<>> /\ UNCHANGED keyboard
       \/ keyboard # <<>> /\ Head(keyboard) = "unmapped" /\ keyboard' = Tail(keyboard)
    /\ Status' = "SUCCESS" /\ pc' = "Round"
    /\ UNCHANGED <<err, Retry, failure, loopVars, sendVars, pressed, mainVars>>

KeyFails ==
    /\ pc = "Keys"
    /\ Status' = "DEVICE_ERROR" /\ Finished' = TRUE
    /\ failure' = [kind |-> "key", pending |-> reply]
    /\ pc' = "Round"
    /\ UNCHANGED <<err, Retry, ReadBurst, Activity, ext, reply, sendVars, userVars,
                   mainVars>>

LocalExit ==
    /\ pc = "Keys" /\ keyboard # <<>> /\ Head(keyboard) = "exit"
    /\ keyboard' = Tail(keyboard)
    /\ Status' = "SUCCESS" /\ Finished' = TRUE
    /\ pc' = "Round"
    /\ UNCHANGED <<err, Retry, failure, ReadBurst, Activity, ext, reply, sendVars,
                   pressed, mainVars>>

SendKey ==
    /\ pc = "Keys" /\ keyboard # <<>> /\ Head(keyboard) = "text"
    /\ keyboard' = Tail(keyboard)
    /\ \E n \in 1 .. MaxBuffer : Issue(n, "key")
    /\ Status' = "SUCCESS"
    /\ UNCHANGED <<err, failure, loopVars, pressed, mainVars>>

-----------------------------------------------------------------------------
(***************************************************************************)
(* SendAll.                                                                *)
(***************************************************************************)

ResumeAtStart(n) == 0
Resume(n)        == Offset + n

SendPart ==
    /\ pc = "Send" /\ Offset < Length
    /\ \E n \in 1 .. Length - Offset :
          /\ accepted' = accepted \o
                [i \in 1 .. n |-> issued - Length + Offset + i]
          /\ Offset' = Resume(n)
    /\ Retry' = 0
    /\ UNCHANGED <<pc, Status, err, failure, loopVars, sender, Length, issued,
                   userVars, mainVars>>

RetryTooOften == Retry > SendLimit
GivesUp       == NextRetry > SendLimit

\* While a key exchange runs, wolfSSH_worker is called before the next try.
SendAgain ==
    /\ pc = "Send" /\ Offset < Length
    /\ \E r \in Errors \cup {"zero"} :
          /\ IsRetryableError(GetError(r)) /\ ~GivesUp
          /\ IF GetError(r) = "REKEYING" THEN err' \in Errors
                                         ELSE err' = GetError(r)
    /\ Retry' = NextRetry
    /\ UNCHANGED <<pc, Status, failure, loopVars, sendVars, userVars, mainVars>>

SendFails ==
    /\ pc = "Send" /\ Offset < Length
    /\ \E r \in Errors \cup {"zero"} :
          /\ ~IsRetryableError(GetError(r)) \/ GivesUp
          /\ err' = GetError(r)
    /\ Status' = "DEVICE_ERROR" /\ Finished' = TRUE
    /\ failure' = [kind |-> "send", pending |-> 0]
    /\ Retry' = 0
    /\ pc' = "Round"
    /\ UNCHANGED <<ReadBurst, Activity, ext, reply, sendVars, userVars, mainVars>>

\* After a reply the queue is looked at again, after a key the keyboard.
SendDone ==
    /\ pc = "Send" /\ Offset = Length
    /\ Status' = "SUCCESS" /\ Retry' = 0
    /\ IF sender = "key"
       THEN pc' = "Keys" /\ Activity' = TRUE
       ELSE pc' = "Replies" /\ UNCHANGED Activity
    /\ UNCHANGED <<err, failure, ReadBurst, Finished, ext, reply, sendVars,
                   userVars, mainVars>>

-----------------------------------------------------------------------------
(***************************************************************************)
(* Cleanup.                                                                *)
(***************************************************************************)

\* What is released next; the password is erased before wolfSSH_Cleanup.
SocketFirst == IF "socket" \in held THEN "socket"
               ELSE IF "Ssh" \in held THEN "Ssh"
               ELSE IF "Context" \in held THEN "Context" ELSE "wolfSSH"
NextToFree == IF "Ssh" \in held THEN "Ssh"
              ELSE IF "Context" \in held THEN "Context"
              ELSE IF "socket" \in held THEN "socket" ELSE "wolfSSH"

BestEffortShutdown ==
    /\ pc = "Cleanup" /\ NextToFree = "Ssh"
    /\ \/ /\ pc' = "Free" /\ Retry' = 0 /\ UNCHANGED err
       \/ \E e \in Errors :
             /\ err' = e
             /\ IF IsRetryableError(e) /\ NextRetry < ShutdownLimit
                THEN Retry' = NextRetry /\ UNCHANGED pc
                ELSE Retry' = 0 /\ pc' = "Free"
    /\ UNCHANGED <<Status, failure, loopVars, sendVars, userVars, mainVars>>

Release ==
    /\ pc = "Free" \/ (pc = "Cleanup" /\ NextToFree # "Ssh")
    /\ held' = held \ {NextToFree}
    /\ IF NextToFree = "wolfSSH"
       THEN pc' = "Returned" /\ secret' = FALSE
       ELSE pc' = "Free" /\ UNCHANGED secret
    /\ UNCHANGED <<Status, err, Retry, failure, loopVars, sendVars, userVars,
                   WolfSshInitialized>>

-----------------------------------------------------------------------------
Init ==
    /\ pc = "Parse" /\ Status = "SUCCESS"
    /\ held = {} /\ secret = FALSE /\ WolfSshInitialized = FALSE
    /\ err = "none" /\ Retry = 0 /\ failure = NoFailure
    /\ ReadBurst = 0 /\ Activity = FALSE /\ Finished = FALSE
    /\ ext = 0 /\ reply = 0
    /\ sender = "key" /\ Length = 0 /\ Offset = 0
    /\ keyboard = <<>> /\ pressed = 0
    /\ issued = 0 /\ accepted = <<>>

Press ==
    /\ pressed < MaxKeys
    /\ \E k \in {"text", "exit", "unmapped"} : keyboard' = Append(keyboard, k)
    /\ pressed' = pressed + 1
    /\ UNCHANGED <<pc, Status, err, Retry, failure, loopVars, sendVars, mainVars>>

Main    == StepSucceeds \/ StepFails \/ Help \/ SelfTest \/ ConnectWolfSsh
             \/ BestEffortShutdown \/ Release
Reads   == ReadData \/ ReadExtended \/ ReadEnds \/ ReadRekeys \/ ReadIdle
             \/ ReadFails \/ BurstEnds \/ DrainExtendedData
Keys    == NoKey \/ KeyFails \/ LocalExit \/ SendKey
SendAll == SendPart \/ SendAgain \/ SendFails \/ SendDone
Program == Main \/ CreateTerminal \/ Round \/ SessionEnds \/ Reads
             \/ TakeResponse \/ Keys \/ SendAll

Next == Program \/ Press

Spec == Init /\ [][Next]_vars

\* The processor does not stop; nothing is assumed of the server or the user.
FairSpec == Spec /\ WF_vars(Program)
-----------------------------------------------------------------------------
(***************************************************************************)
(* Properties.                                                             *)
(***************************************************************************)

Points == Steps \cup {"Connect", "Create", "Round", "Read", "Drain", "Replies",
                      "Keys", "Send", "Cleanup", "Free", "Returned"}
RetryLimit == IF pc = "Send" THEN SendLimit
              ELSE IF pc = "Connect" THEN ConnectLimit - 1
              ELSE IF pc = "Cleanup" THEN ShutdownLimit - 1
              ELSE 0

\* Every variable has its type; each retry counter stays within its limit.
TypeOK ==
    /\ pc \in Points /\ Status \in Statuses
    /\ held \subseteq Resources
    /\ secret \in BOOLEAN /\ WolfSshInitialized \in BOOLEAN
    /\ err \in Errors \cup {"none"} /\ Retry \in 0 .. RetryLimit
    /\ ReadBurst \in 0 .. BurstLimit
    /\ Activity \in BOOLEAN /\ Finished \in BOOLEAN
    /\ ext \in 0 .. MaxExtended /\ reply \in 0 .. MaxBuffer
    /\ sender \in {"reply", "key"}
    /\ Length \in 0 .. MaxBuffer /\ Offset \in 0 .. Length
    /\ keyboard \in Seq({"text", "exit", "unmapped"}) /\ pressed \in 0 .. MaxKeys
    /\ issued \in Nat /\ accepted \in Seq(Nat)
    /\ failure \in Failures

\* Replies and keys reach wolfSSH in the order they were produced, no byte
\* twice and none left out, through every partial send and retry of SendAll;
\* only a failed SendAll, which ends the session, leaves a rest.
OutputInOrder ==
    /\ \A i \in 1 .. Len(accepted) : accepted[i] = i
    /\ pc = "Send" => Len(accepted) = issued - Length + Offset
    /\ pc # "Send" /\ failure.kind # "send" => Len(accepted) = issued

\* The SSH session is used with its context, its socket and the library still
\* there: callbacks of wolfSSH_shutdown and wolfSSH_free reach a live socket.
LifetimesNest ==
    /\ "Ssh" \in held => {"Context", "socket", "wolfSSH"} \subseteq held
    /\ "Terminal" \in held => "Ssh" \in held
    /\ {"Context", "socket"} \cap held # {} => "wolfSSH" \in held

\* Whichever step failed, UefiMain returns with everything released, and with
\* the password, typed or given as an argument, erased once the library had
\* been initialised; the returns before that leave it in memory.
LeavesNothing ==
    pc = "Returned" => held = {} /\ (WolfSshInitialized => ~secret)

\* What UefiMain acquires it releases, in an order that no callback notices:
\* lifetimes nest on the way, and nothing is left at the end.
ResourcesKept == LifetimesNest /\ LeavesNothing

\* A session that failed to receive, to drain the extended data, to send or to read
\* keys returns an error to the shell.  What the code lets pass as success:
\*  - a connection that was lost (WS_SOCKET_ERROR_E), which it takes for an end;
\*  - a failure to receive or to drain with replies left to send, because sending
\*    them sets Status anew;
\*  - a failure to drain after which another drain of the same burst succeeded.
FailureReported ==
    pc = "Returned" /\ Status = "SUCCESS" =>
      \/ failure.kind \in {"none", "transport", "redrained"}
      \/ failure.kind \in {"receive", "drain"} /\ failure.pending > 0

\* Ctrl+] ends the session, however fast the server sends and whatever the
\* library answers to the sends that come first.
LocalExitWorks ==
    ("Terminal" \in held /\ \E i \in DOMAIN keyboard : keyboard[i] = "exit")
      ~> pc = "Returned"

\* Once a round sets Finished the program returns, shutdown or no shutdown.
FinishedReturns == Finished ~> pc = "Returned"

\* The user gets back to the shell: by Ctrl+] at any time, and whenever a round
\* ends the session (RunInteractiveSession, BestEffortShutdown).
ReturnsToShell == LocalExitWorks /\ FinishedReturns
=============================================================================
