------------------------------- MODULE NetProxy -------------------------------
(***************************************************************************)
(* tests/qemu_net_proxy.py: the TCP flow between the firmware under test   *)
(* (the guest) and the SSH server of the test (the host).                  *)
(*                                                                         *)
(* Two asyncio tasks share the state: the one that handles the guest's     *)
(* frames, one after the other, and read_host.  A task runs from one await *)
(* to the next without the other; `handler' says at which await the first  *)
(* one is.  The link to QEMU is a stream socket, so frames are neither     *)
(* lost nor reordered, but the guest's TCP repeats what it thinks is lost. *)
(* Sequence numbers count modulo Modulus (2^32 in the code).  A byte is    *)
(* its place in its stream.                                                *)
(***************************************************************************)
EXTENDS Integers, Sequences

CONSTANTS
    Modulus,
    ServerIsn, GuestIsn,    \* first sequence numbers
    ChunkSize,              \* bytes of one segment: 1200
    HostBytes, GuestBytes,  \* bytes each side sends
    MaxRepeats,             \* segments the guest repeats
    MaxSyns                 \* times it sends its SYN

\* The word of the code is 2^32: a chunk is far less than half of it, and the guest's SYNs
\* and bytes of one connection do not go once round it, so that a number names one byte.
ASSUME NetProxyAssumption ==
    /\ Modulus \in Nat \ {0, 1} /\ Modulus % 2 = 0
    /\ ServerIsn \in 0 .. Modulus - 1 /\ GuestIsn \in 0 .. Modulus - 1
    /\ ChunkSize \in Nat \ {0} /\ HostBytes \in Nat /\ GuestBytes \in Nat
    /\ MaxRepeats \in Nat /\ MaxSyns \in Nat
    /\ 2 * (ChunkSize + 2) < Modulus /\ 2 * MaxSyns < Modulus /\ GuestBytes + 2 < Modulus

VARIABLES
    link,           \* "up" until QEMU goes or the frame task raises
    toProxy, toGuest,       \* segments on the link
    handler, frame, \* where the frame task waits, and the segment it handles
    reader,         \* read_host: "none", "reading" or "done"
    host_writer,    \* "none", "open" or "closed"
    host_pending, guest_pending,
    guest_next, server_next,
    server_unacked_end,     \* a sequence number, or None
    host_eof, fin_sent,
    hostSent, hostGot,      \* bytes the host has sent, and those it has received
    guest, snd, una, rcv,   \* the guest's TCP: state, next, oldest unacknowledged, expected
    guestSent, guestGot, guestEof,
    finSeq,         \* number of the guest's FIN, or None
    syns, repeats

proxy == <<host_pending, guest_pending, guest_next, server_next, server_unacked_end,
           host_eof, fin_sent>>
tasks == <<handler, frame, reader, host_writer>>
host  == <<hostSent, hostGot>>
peer  == <<guest, snd, una, rcv, guestSent, guestGot, guestEof, finSeq, syns, repeats>>
vars  == <<link, toProxy, toGuest, tasks, proxy, host, peer>>

None == -1
Plus(a, n) == (a + n) % Modulus
Nothing == [syn |-> FALSE, fin |-> FALSE, rst |-> FALSE, seq |-> 0, ack |-> 0, data |-> << >>]

-----------------------------------------------------------------------------
(***************************************************************************)
(* send_tcp: the segment carries the numbers as they are, then they move.  *)
(***************************************************************************)
SendTcp(syn, fin, data, next, pending) ==
    LET consumed == Len(data) + (IF syn THEN 1 ELSE 0) + (IF fin THEN 1 ELSE 0)
    IN /\ toGuest' = IF link = "up"
                     THEN Append(toGuest, [Nothing EXCEPT !.syn = syn, !.fin = fin, !.data = data,
                                             !.seq = server_next, !.ack = next])
                     ELSE toGuest
       /\ host_pending' = pending
       /\ IF consumed = 0 THEN UNCHANGED <<server_next, server_unacked_end>>
          ELSE /\ server_next' = Plus(server_next, consumed)
               /\ server_unacked_end' = server_next'

SendAck(next) == SendTcp(FALSE, FALSE, << >>, next, host_pending)

\* send_host_pending, with the values that unacked, pending and eof have by then.
IgnoresFlight(unacked) == TRUE
Idle(unacked) == unacked = None
FinBeforeData(pending, eof) == eof /\ ~fin_sent
FinIsDue(pending, eof) == pending = << >> /\ eof /\ ~fin_sent

SendHostPending(unacked, pending, eof) ==
    LET n == IF Len(pending) < ChunkSize THEN Len(pending) ELSE ChunkSize
    IN IF Idle(unacked) /\ FinIsDue(pending, eof)
       THEN fin_sent' = TRUE /\ SendTcp(FALSE, TRUE, << >>, guest_next, pending)
       ELSE /\ UNCHANGED fin_sent
            /\ IF Idle(unacked) /\ pending # << >>
               THEN SendTcp(FALSE, FALSE, SubSeq(pending, 1, n), guest_next,
                            SubSeq(pending, n + 1, Len(pending)))
               ELSE /\ host_pending' = pending /\ server_unacked_end' = unacked
                    /\ UNCHANGED <<toGuest, server_next>>

-----------------------------------------------------------------------------
(***************************************************************************)
(* The frame task.                                                         *)
(***************************************************************************)
Up == link = "up"
Ready == Up /\ handler = "idle" /\ toProxy # << >>
Segment == Head(toProxy)
Takes == toProxy' = Tail(toProxy)

HandleRst ==
    /\ Ready /\ Segment.rst /\ Takes
    /\ UNCHANGED <<link, toGuest, tasks, proxy, host, peer>>

SynAck == SendTcp(TRUE, FALSE, << >>, guest_next', host_pending)

HandleSyn ==
    /\ Ready /\ Segment.syn /\ Takes
    /\ guest_next' = Plus(Segment.seq, 1)
    /\ IF host_writer = "none"
       THEN /\ handler' = "connecting"
            /\ UNCHANGED <<toGuest, host_pending, server_next, server_unacked_end>>
       ELSE SynAck /\ UNCHANGED handler
    /\ UNCHANGED <<link, frame, reader, host_writer, guest_pending, host_eof, fin_sent, host,
                   peer>>

\* connect_host after open_connection, and the rest of the SYN's handling: read_host
\* is created but cannot run before the SYN has been answered.
ConnectHost ==
    /\ Up /\ handler = "connecting"
    /\ host_writer' = "open" /\ reader' = "reading" /\ handler' = "idle"
    /\ hostGot' = hostGot \o guest_pending /\ guest_pending' = << >>
    /\ guest_next' = guest_next
    /\ SynAck
    /\ UNCHANGED <<link, toProxy, frame, host_eof, fin_sent, hostSent, peer>>

\* No server: the exception leaves qemu_connected, which closes the link.
ConnectFails ==
    /\ Up /\ handler = "connecting"
    /\ link' = "down" /\ handler' = "ended"
    /\ UNCHANGED <<toProxy, toGuest, frame, reader, host_writer, proxy, host, peer>>

\* The signed distance of the acknowledgement from the end of what is in flight.
PastTheEnd(ack) ==
    /\ server_unacked_end # None
    /\ (ack - server_unacked_end) % Modulus \in 1 .. Modulus \div 2 - 1
Acknowledges(ack) ==
    /\ server_unacked_end # None
    /\ (ack - server_unacked_end) % Modulus < Modulus \div 2

Ordinary == Ready /\ ~Segment.rst /\ ~Segment.syn
Rest(segment) == IF segment.fin THEN "fin" ELSE "idle"

\* What was in flight has arrived; then the task waits until QEMU has taken the
\* next chunk.
HandleAck ==
    /\ Ordinary /\ Acknowledges(Segment.ack) /\ Takes
    /\ frame' = Segment /\ handler' = "data"
    /\ SendHostPending(None, host_pending, host_eof)
    /\ UNCHANGED <<link, reader, host_writer, guest_pending, guest_next, host_eof, host, peer>>

AnySeq(segment) == TRUE
InOrder(segment) == segment.seq = guest_next

\* The data of a segment, then the wait for the host's socket.
Deliver(segment) ==
    /\ frame' = segment
    /\ handler' = IF segment.data = << >> THEN Rest(segment) ELSE "ack"
    /\ IF segment.data # << >> /\ InOrder(segment)
       THEN /\ guest_next' = Plus(guest_next, Len(segment.data))
            /\ IF host_writer = "none"
               THEN guest_pending' = guest_pending \o segment.data /\ UNCHANGED hostGot
               ELSE /\ hostGot' = IF host_writer = "open" THEN hostGot \o segment.data ELSE hostGot
                    /\ UNCHANGED guest_pending
       ELSE UNCHANGED <<guest_next, guest_pending, hostGot>>
    /\ UNCHANGED <<link, toGuest, reader, host_writer, host_pending, server_next,
                   server_unacked_end, host_eof, fin_sent, hostSent, peer>>

HandleData ==
    \/ Ordinary /\ ~Acknowledges(Segment.ack) /\ Takes /\ Deliver(Segment)
    \/ Up /\ handler = "data" /\ UNCHANGED toProxy /\ Deliver(frame)

\* The host has closed or lost the connection, or the proxy has closed it: drain raises
\* after the data has been counted, and the exception leaves qemu_connected, which
\* closes the link.  What was written counts as lost.
DrainRaises(segment) ==
    /\ segment.data # << >> /\ InOrder(segment) /\ host_writer # "none"
    /\ frame' = segment /\ guest_next' = Plus(guest_next, Len(segment.data))
    /\ link' = "down" /\ handler' = "ended"
    /\ UNCHANGED <<toGuest, reader, host_writer, host_pending, guest_pending, server_next,
                   server_unacked_end, host_eof, fin_sent, host, peer>>

\* The guest acknowledges at once what it receives, so that its data is never the first
\* to acknowledge something: a frame with data does not get here through HandleAck.
DrainFails == Ordinary /\ ~Acknowledges(Segment.ack) /\ Takes /\ DrainRaises(Segment)

AckData ==
    /\ Up /\ handler = "ack"
    /\ handler' = Rest(frame)
    /\ SendAck(guest_next)
    /\ UNCHANGED <<link, toProxy, frame, reader, host_writer, guest_pending, guest_next, host_eof,
                   fin_sent, host, peer>>

\* A FIN that comes with data is never in order here, as its data has moved
\* guest_next on; the guest has to repeat it.
FinNotCounted == guest_next
AfterFin == IF InOrder(frame) THEN Plus(guest_next, 1) ELSE guest_next

HandleFin ==
    /\ Up /\ handler = "fin"
    /\ guest_next' = AfterFin
    /\ SendAck(guest_next')
    /\ handler' = "close"
    /\ UNCHANGED <<link, toProxy, frame, reader, host_writer, guest_pending, host_eof, fin_sent,
                   host, peer>>

CloseHost ==
    /\ Up /\ handler = "close"
    /\ handler' = "idle"
    /\ host_writer' = IF host_writer = "none" THEN "none" ELSE "closed"
    /\ UNCHANGED <<link, toProxy, toGuest, frame, reader, proxy, host, peer>>

-----------------------------------------------------------------------------
(***************************************************************************)
(* read_host.                                                              *)
(***************************************************************************)
HostStream(from, to) == [k \in 1 .. to - from |-> from + k]

\* Also after host_writer.close(), while the StreamReader still has bytes.
ReadHost ==
    /\ reader = "reading"
    /\ \E upto \in hostSent + 1 .. HostBytes :
         /\ hostSent' = upto
         /\ SendHostPending(server_unacked_end, host_pending \o HostStream(hostSent, upto),
                            host_eof)
    /\ UNCHANGED <<link, toProxy, tasks, guest_pending, guest_next, host_eof, hostGot, peer>>

\* The host closes once it has sent all, or the proxy has closed the connection and
\* nothing is left in the StreamReader.
ReadEof ==
    /\ reader = "reading"
    /\ hostSent = HostBytes \/ host_writer = "closed"
    /\ reader' = "done" /\ host_eof' = TRUE
    /\ SendHostPending(server_unacked_end, host_pending, TRUE)
    /\ UNCHANGED <<link, toProxy, handler, frame, host_writer, guest_pending, guest_next, host,
                   peer>>

\* QEMU ends: nothing more is handled, and what is sent is dropped.  (A second QEMU
\* could connect to the same proxy; the test starts one only.)
Disconnect ==
    /\ Up /\ handler = "idle"
    /\ link' = "down" /\ handler' = "ended"
    /\ UNCHANGED <<toProxy, toGuest, frame, reader, host_writer, proxy, host, peer>>

-----------------------------------------------------------------------------
(***************************************************************************)
(* The guest's TCP (external).                                             *)
(***************************************************************************)
Emit(segment) == toProxy' = Append(toProxy, segment)
GuestSegment(seq, data, fin) ==
    [Nothing EXCEPT !.seq = seq, !.ack = rcv, !.data = data, !.fin = fin]

GuestConnect ==
    /\ Up /\ guest \in {"closed", "connecting"} /\ syns < MaxSyns
    /\ guest' = "connecting" /\ syns' = syns + 1
    /\ snd' = Plus(GuestIsn, 1) /\ una' = GuestIsn
    /\ Emit([Nothing EXCEPT !.syn = TRUE, !.seq = GuestIsn])
    /\ UNCHANGED <<link, toGuest, tasks, proxy, host, rcv, guestSent, guestGot, guestEof, finSeq,
                   repeats>>

\* What is in order is taken; everything but a bare acknowledgement is acknowledged.
Carries(s) == s.data # << >> \/ s.fin \/ s.syn

GuestReceive ==
    /\ Up /\ guest # "reset" /\ toGuest # << >>
    /\ toGuest' = Tail(toGuest)
    /\ LET s     == Head(toGuest)
           opens == guest = "connecting" /\ s.syn
           fits  == guest # "connecting" /\ ~s.syn /\ s.seq = rcv
       IN /\ guest' = IF opens THEN "open" ELSE guest
          /\ una' = s.ack
          /\ rcv' = IF opens THEN Plus(s.seq, 1)
                    ELSE IF fits THEN Plus(rcv, Len(s.data) + (IF s.fin THEN 1 ELSE 0)) ELSE rcv
          /\ guestGot' = IF fits THEN guestGot \o s.data ELSE guestGot
          /\ guestEof' = (guestEof \/ (fits /\ s.fin))
          /\ IF Carries(s) THEN Emit([Nothing EXCEPT !.seq = snd, !.ack = rcv'])
                           ELSE UNCHANGED toProxy
    /\ UNCHANGED <<link, tasks, proxy, host, snd, guestSent, finSeq, syns, repeats>>

GuestSend ==
    /\ Up /\ guest = "open" /\ finSeq = None /\ guestSent < GuestBytes
    /\ guestSent' = guestSent + 1 /\ snd' = Plus(snd, 1)
    /\ Emit(GuestSegment(snd, <<guestSent + 1>>, FALSE))
    /\ UNCHANGED <<link, toGuest, tasks, proxy, host, guest, una, rcv, guestGot, guestEof, finSeq,
                   syns, repeats>>

GuestFin ==
    /\ Up /\ guest = "open" /\ finSeq = None
    /\ finSeq' = snd /\ snd' = Plus(snd, 1)
    /\ Emit(GuestSegment(snd, << >>, TRUE))
    /\ UNCHANGED <<link, toGuest, tasks, proxy, host, guest, una, rcv, guestSent, guestGot,
                   guestEof, syns, repeats>>

\* The last byte and the FIN in one segment.
GuestFinWithData ==
    /\ Up /\ guest = "open" /\ finSeq = None /\ guestSent < GuestBytes
    /\ guestSent' = guestSent + 1
    /\ finSeq' = Plus(snd, 1) /\ snd' = Plus(snd, 2)
    /\ Emit(GuestSegment(snd, <<guestSent + 1>>, TRUE))
    /\ UNCHANGED <<link, toGuest, tasks, proxy, host, guest, una, rcv, guestGot, guestEof, syns,
                   repeats>>

\* The oldest unacknowledged byte, or the FIN, once more.
GuestRepeat ==
    /\ Up /\ guest = "open" /\ una # snd /\ repeats < MaxRepeats
    /\ repeats' = repeats + 1
    /\ Emit(IF una = finSeq THEN GuestSegment(una, << >>, TRUE)
            ELSE GuestSegment(una, <<(una - GuestIsn) % Modulus>>, FALSE))
    /\ UNCHANGED <<link, toGuest, tasks, proxy, host, guest, snd, una, rcv, guestSent, guestGot,
                   guestEof, finSeq, syns>>

GuestReset ==
    /\ Up /\ guest = "open"
    /\ guest' = "reset"
    /\ Emit([Nothing EXCEPT !.rst = TRUE, !.seq = snd])
    /\ UNCHANGED <<link, toGuest, tasks, proxy, host, snd, una, rcv, guestSent, guestGot, guestEof,
                   finSeq, syns, repeats>>

-----------------------------------------------------------------------------
Init ==
    /\ link = "up" /\ toProxy = << >> /\ toGuest = << >>
    /\ handler = "idle" /\ frame = Nothing /\ reader = "none" /\ host_writer = "none"
    /\ host_pending = << >> /\ guest_pending = << >>
    /\ guest_next = 0 /\ server_next = ServerIsn /\ server_unacked_end = None
    /\ host_eof = FALSE /\ fin_sent = FALSE
    /\ hostSent = 0 /\ hostGot = << >>
    /\ guest = "closed" /\ snd = GuestIsn /\ una = GuestIsn /\ rcv = 0
    /\ guestSent = 0 /\ guestGot = << >> /\ guestEof = FALSE /\ finSeq = None
    /\ syns = 0 /\ repeats = 0

FrameTask == HandleRst \/ HandleSyn \/ ConnectHost \/ HandleAck \/ HandleData \/ AckData
               \/ HandleFin \/ CloseHost
ReadTask  == ReadHost \/ ReadEof
Guest     == GuestConnect \/ GuestReceive \/ GuestSend \/ GuestFin \/ GuestFinWithData
               \/ GuestRepeat \/ GuestReset
Next == FrameTask \/ ConnectFails \/ DrainFails \/ ReadTask \/ Disconnect \/ Guest

Spec == Init /\ [][Next]_vars

\* asyncio runs every task that is ready, the server of the test sends its output
\* and closes, and the guest's TCP takes what arrives.
Fairness == WF_vars(FrameTask) /\ WF_vars(ReadTask) /\ WF_vars(GuestReceive)
LiveSpec == Spec /\ Fairness

-----------------------------------------------------------------------------
(***************************************************************************)
(* Properties.                                                             *)
(***************************************************************************)
Counts(s) == \A k \in DOMAIN s : s[k] = k

\* The guest sees the end of the stream only after every byte read from the host.
FinComesLast ==
    guestEof => host_eof /\ host_pending = << >> /\ Len(guestGot) = hostSent

\* Each side receives the other's bytes in order and once, and the guest the end
\* only after the last of them, although it repeats segments, both tasks send, and
\* the numbers wrap.
StreamsInOrder ==
    /\ Counts(hostGot) /\ Len(hostGot) =< guestSent
    /\ Counts(guestGot) /\ Len(guestGot) =< hostSent
    /\ FinComesLast

\* The proxy cannot repeat anything, so it never has two segments on the way, and
\* takes none for acknowledged that the guest has not received, whichever task sent
\* it.  A second SYN is answered with another number and is the exception.
OneInFlight ==
    syns =< 1 =>
      /\ \A i, j \in DOMAIN toGuest : Carries(toGuest[i]) /\ Carries(toGuest[j]) => i = j
      /\ server_unacked_end = None /\ guest = "open" => rcv = server_next

\* As long as the guest neither closes nor resets, repeats no SYN and stays
\* connected, it gets every byte of the host and then the end of the stream.
StreamComplete ==
    <>[](guest = "open" /\ finSeq = None /\ syns = 1 /\ link = "up") =>
      <>(guestEof /\ Len(guestGot) = HostBytes)

\* A FIN that comes without data is acknowledged, repeated or not, so that the
\* guest can forget the connection.
FinAcknowledged ==
    finSeq # None /\ syns = 1 /\ toProxy # << >> /\ toProxy[Len(toProxy)].fin
      /\ toProxy[Len(toProxy)].data = << >> ~> una = snd \/ link = "down" \/ guest = "reset"

\* Nobody waits for ever: a guest that stays gets everything, one that closes gets
\* its FIN acknowledged.
EverythingArrives == StreamComplete /\ FinAcknowledged
=============================================================================
