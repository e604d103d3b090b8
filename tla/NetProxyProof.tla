---------------------------- MODULE NetProxyProof ----------------------------
(***************************************************************************)
(* Proofs about NetProxy for any word, first sequence numbers and chunk    *)
(* size, any number of bytes of the host, and any number of bytes,         *)
(* repeated segments and SYNs of the guest within NetProxyAssumption.      *)
(*                                                                         *)
(* The invariant IInv follows a connection: Opening while there are only   *)
(* SYNs and answers to them; then Running, which is Upward (the guest's    *)
(* bytes), SynsFirst (repeated SYNs are handled before anything else) and  *)
(* either Stuck (a SYN was repeated: nothing more is acknowledged) or Flow *)
(* (the host's bytes: Arrived, or one segment Flying).  Once the link is   *)
(* down only the two properties are kept.                                  *)
(***************************************************************************)
EXTENDS NetProxy, SequenceTheorems, TLAPS

Numbers == 0 .. Modulus - 1
Segments == [syn : BOOLEAN, fin : BOOLEAN, rst : BOOLEAN, seq : Numbers, ack : Numbers,
             data : Seq(Nat)]

\* The types, and the link between the end of the host's stream and its reader.
Types ==
    /\ link \in {"up", "down"}
    /\ toProxy \in Seq(Segments) /\ toGuest \in Seq(Segments) /\ frame \in Segments
    /\ handler \in {"idle", "connecting", "data", "ack", "fin", "close", "ended"}
    /\ reader \in {"none", "reading", "done"} /\ host_writer \in {"none", "open", "closed"}
    /\ host_pending \in Seq(Nat) /\ guest_pending \in Seq(Nat)
    /\ guest_next \in Numbers /\ server_next \in Numbers
    /\ server_unacked_end \in Numbers \cup {None}
    /\ hostSent \in 0 .. HostBytes /\ hostGot \in Seq(Nat)
    /\ guest \in {"closed", "connecting", "open", "reset"}
    /\ snd \in Numbers /\ una \in Numbers /\ rcv \in Numbers
    /\ guestSent \in 0 .. GuestBytes /\ guestGot \in Seq(Nat)
    /\ finSeq \in Numbers \cup {None}
    /\ syns \in 0 .. MaxSyns
Flags ==
    /\ host_eof \in BOOLEAN /\ fin_sent \in BOOLEAN /\ guestEof \in BOOLEAN
    /\ host_eof <=> reader = "done"

Plain(s) == ~s.rst /\ ~s.syn

\* The numbers that the guest has used up, and those it may be sent as acknowledgements.
Spent == guestSent + 1 + (IF finSeq = None THEN 0 ELSE 1)
Reached(n, spent) == \E u \in 1 .. spent : n = Plus(GuestIsn, u)

\* q is the part of a stream that follows its first n bytes.
Continues(q, n) == \A k \in 1 .. Len(q) : q[k] = n + k

\* The guest's SYN, and the answer to the i-th of them.
Asks(s) == s.syn /\ ~s.rst /\ s.seq = GuestIsn
Answers(s, i) ==
    /\ s.syn /\ ~s.fin /\ s.data = << >>
    /\ s.ack = Plus(GuestIsn, 1) /\ s.seq = Plus(ServerIsn, i - 1)

\* Before the guest has its connection there are only SYNs and answers to them on
\* the link, one for each that it has sent, and nothing has been handed on.
Opening ==
    /\ handler \in {"idle", "connecting"}
    /\ \A i \in 1 .. Len(toProxy) : Asks(toProxy[i])
    /\ \A i \in 1 .. Len(toGuest) : Answers(toGuest[i], i)
    /\ syns = Len(toProxy) + Len(toGuest) + (IF handler = "connecting" THEN 1 ELSE 0)
    /\ server_next = Plus(ServerIsn, Len(toGuest))
    /\ server_unacked_end = IF toGuest = << >> THEN None ELSE server_next
    /\ host_writer = IF toGuest = << >> THEN "none" ELSE "open"
    /\ reader = "none" <=> host_writer = "none"
    /\ handler = "connecting" => host_writer = "none"
    /\ host_writer # "none" \/ handler = "connecting" => guest_next = Plus(GuestIsn, 1)
    /\ guestGot = << >> /\ ~guestEof /\ hostGot = << >> /\ guest_pending = << >>
    /\ guestSent = 0 /\ finSeq = None /\ ~fin_sent
    /\ Len(host_pending) = hostSent /\ Continues(host_pending, 0)
    /\ guest = "closed" => syns = 0
    /\ syns > 0 => snd = Plus(GuestIsn, 1)

\* What a segment of an open guest may carry.
Spoken(s, sent, fin) ==
    \/ s.data = << >> /\ ~s.fin
    \/ s.data = << >> /\ fin # None /\ s.seq = fin
    \/ \E j \in 1 .. sent : s.data = <<j>> /\ s.seq = Plus(GuestIsn, j)

\* From the guest to the host: what has been sent in either direction,
Said ==
    /\ snd = Plus(GuestIsn, Spent)
    /\ finSeq # None => finSeq = Plus(GuestIsn, guestSent + 1)
    /\ \A i \in 1 .. Len(toProxy) : Plain(toProxy[i]) => Spoken(toProxy[i], guestSent, finSeq)
    /\ Reached(una, Spent)
    /\ \A i \in 1 .. Len(toGuest) : Reached(toGuest[i].ack, Spent)

\* the segment that the frame task is at,
Handling ==
    /\ handler \notin {"connecting", "ended"}
    /\ handler \in {"data", "ack", "fin"} => Spoken(frame, guestSent, finSeq)
    /\ handler = "fin" => frame.fin
    /\ handler \in {"ack", "fin"} /\ frame.data # << >> => frame.seq # guest_next

\* and what the host has been given.
Passed ==
    /\ Counts(hostGot) /\ Len(hostGot) =< guestSent
    /\ \E g \in 1 .. Spent :
         /\ guest_next = Plus(GuestIsn, g)
         /\ host_writer = "open" => g = Len(hostGot) + 1 \/ g = guestSent + 2

Upward ==
    /\ host_writer # "none" /\ reader # "none" /\ guest_pending = << >>
    /\ Said /\ Handling /\ Passed

\* SYNs that the guest has repeated are handled before everything else it sends.
SynsFirst ==
    \E a \in 0 .. Len(toProxy) :
      /\ \A i \in 1 .. Len(toProxy) : toProxy[i].syn <=> i =< a
      /\ \A i \in 1 .. Len(toProxy) : toProxy[i].syn => Asks(toProxy[i])
      /\ a < syns
      /\ a > 0 => hostGot = << >> /\ guest_next = Plus(GuestIsn, 1) /\ handler = "idle"
      /\ syns > 1 => server_next = Plus(ServerIsn, syns - a)

\* From the host to the guest after a repeated SYN: the answers have used up numbers
\* that the guest does not know of, so that nothing is ever acknowledged or sent.
Stuck ==
    /\ \A i \in 1 .. Len(toGuest) : ~toGuest[i].fin /\ toGuest[i].data = << >>
    /\ \A i \in 1 .. Len(toProxy) : Plain(toProxy[i]) => toProxy[i].ack = Plus(ServerIsn, 1)
    /\ rcv = Plus(ServerIsn, 1)
    /\ guestGot = << >> /\ ~guestEof /\ ~fin_sent /\ server_unacked_end = server_next

\* From the host to the guest after one SYN.  Every acknowledgement under way is at
\* most a chunk old, and none that is older follows a current one.
Acks ==
    /\ \A i \in 1 .. Len(toProxy) : Plain(toProxy[i]) =>
         \E d \in 0 .. ChunkSize : server_next = Plus(toProxy[i].ack, d)
    /\ \A i, j \in 1 .. Len(toProxy) :
         i < j /\ Plain(toProxy[i]) /\ Plain(toProxy[j]) /\ toProxy[i].ack = server_next =>
           toProxy[j].ack = server_next

\* Nothing is on the way to the guest.
Arrived ==
    /\ \A i \in 1 .. Len(toGuest) : ~Carries(toGuest[i])
    /\ rcv = server_next /\ server_unacked_end \in {None, server_next}
    /\ server_unacked_end = None =>
         \A i \in 1 .. Len(toProxy) : Plain(toProxy[i]) => toProxy[i].ack = server_next
    /\ fin_sent <=> guestEof
    /\ fin_sent => host_eof /\ host_pending = << >>
    /\ Len(guestGot) + Len(host_pending) = hostSent
    /\ Continues(host_pending, Len(guestGot))

\* The segment c is on the way, the only one the guest has to acknowledge.
Flying(c) ==
    LET s == toGuest[c]
    IN /\ \A i \in 1 .. Len(toGuest) : Carries(toGuest[i]) <=> i = c
       /\ ~s.syn /\ s.seq = rcv /\ Len(s.data) =< ChunkSize
       /\ server_next = Plus(rcv, Len(s.data) + (IF s.fin THEN 1 ELSE 0))
       /\ server_unacked_end = server_next
       /\ \A i \in 1 .. Len(toProxy) : Plain(toProxy[i]) => toProxy[i].ack = rcv
       /\ s.fin <=> fin_sent
       /\ fin_sent => host_eof /\ host_pending = << >> /\ s.data = << >>
       /\ ~guestEof
       /\ Len(guestGot) + Len(s.data) + Len(host_pending) = hostSent
       /\ Continues(s.data, Len(guestGot))
       /\ Continues(host_pending, Len(guestGot) + Len(s.data))

Flow ==
    /\ Counts(guestGot)
    /\ \A i \in 1 .. Len(toGuest) : ~toGuest[i].syn
    /\ Acks
    /\ Arrived \/ \E c \in 1 .. Len(toGuest) : Flying(c)

Running == Upward /\ SynsFirst /\ (syns > 1 => Stuck) /\ (syns =< 1 => Flow)

Live ==
    /\ guest \in {"closed", "connecting"} => Opening
    /\ guest \in {"open", "reset"} => Running
Safe == StreamsInOrder /\ OneInFlight

\* Once the link is down nothing arrives any more, and the two properties themselves are
\* kept by the reader.
IInv == Types /\ Flags /\ (Up => Live) /\ (~Up => Safe)

-----------------------------------------------------------------------------
(***************************************************************************)
(* Arithmetic of sequence numbers.                                         *)
(***************************************************************************)
LEMMA Remainder ==
    ASSUME NEW m \in Nat \ {0}, NEW a \in -m .. 2 * m - 1
    PROVE  a % m = IF a < 0 THEN a + m ELSE IF a < m THEN a ELSE a - m
<1>1. CASE a < 0
  BY <1>1
<1>2. CASE a \in 0 .. m - 1
  BY <1>2
<1>3. CASE a \in m .. 2 * m - 1
  BY <1>3
<1> QED
  BY <1>1, <1>2, <1>3

LEMMA WordSize ==
    /\ Modulus \in Nat \ {0, 1} /\ ServerIsn \in Numbers /\ GuestIsn \in Numbers
    /\ ChunkSize \in Nat \ {0} /\ 2 * (ChunkSize + 2) < Modulus
    /\ MaxSyns \in Nat /\ 2 * MaxSyns < Modulus
    /\ HostBytes \in Nat /\ GuestBytes \in Nat /\ GuestBytes + 2 < Modulus
BY NetProxyAssumption DEF Numbers

LEMMA PlusCases ==
    ASSUME NEW a \in Numbers, NEW n \in Numbers
    PROVE  /\ Plus(a, n) = IF a + n < Modulus THEN a + n ELSE a + n - Modulus
           /\ Plus(a, n) \in Numbers
<1> DEFINE c == a + n
<1>1. Modulus \in Nat \ {0} /\ c \in -Modulus .. 2 * Modulus - 1 /\ c >= 0
  BY WordSize DEF Numbers
<1>2. Plus(a, n) = c % Modulus
  BY DEF Plus
<1> HIDE DEF c
<1>3. c % Modulus = IF c < 0 THEN c + Modulus ELSE IF c < Modulus THEN c ELSE c - Modulus
  BY <1>1, Remainder, Zenon
<1>4. Plus(a, n) = (IF c < Modulus THEN c ELSE c - Modulus) /\ Plus(a, n) \in Numbers
  BY <1>1, <1>2, <1>3 DEF Numbers
<1> QED
  BY <1>1, <1>4, WordSize DEF c, Numbers

\* Numbers at different distances from the same one differ.
LEMMA PlusInjective ==
    ASSUME NEW a \in Numbers, NEW i \in Numbers, NEW j \in Numbers, Plus(a, i) = Plus(a, j)
    PROVE  i = j
<1> DEFINE x == Plus(a, i)
           y == Plus(a, j)
<1>1. x = (IF a + i < Modulus THEN a + i ELSE a + i - Modulus) /\ x \in Numbers
  BY PlusCases, Zenon
<1>2. y = (IF a + j < Modulus THEN a + j ELSE a + j - Modulus) /\ y \in Numbers
  BY PlusCases, Zenon
<1>3. x = y
  OBVIOUS
<1> HIDE DEF x, y
<1> QED
  BY <1>1, <1>2, <1>3, WordSize DEF Numbers

LEMMA PlusZero ==
    ASSUME NEW a \in Numbers
    PROVE  Plus(a, 0) = a
<1>1. 0 \in Numbers
  BY WordSize DEF Numbers
<1>2. Plus(a, 0) = IF a + 0 < Modulus THEN a + 0 ELSE a + 0 - Modulus
  BY <1>1, PlusCases
<1> QED
  BY <1>2, WordSize DEF Numbers

LEMMA PlusPlus ==
    ASSUME NEW a \in Numbers, NEW i \in Numbers, NEW j \in Numbers, i + j \in Numbers
    PROVE  Plus(Plus(a, i), j) = Plus(a, i + j)
<1> DEFINE b == Plus(a, i)
<1>1. b = (IF a + i < Modulus THEN a + i ELSE a + i - Modulus) /\ b \in Numbers
  BY PlusCases
<1> HIDE DEF b
<1>2. Plus(b, j) = IF b + j < Modulus THEN b + j ELSE b + j - Modulus
  BY <1>1, PlusCases
<1>3. Plus(a, i + j) = IF a + (i + j) < Modulus THEN a + (i + j) ELSE a + (i + j) - Modulus
  BY PlusCases
<1>4. Plus(b, j) = Plus(a, i + j)
  BY <1>1, <1>2, <1>3, WordSize DEF Numbers
<1> QED
  BY <1>4 DEF b

\* The distance is found again by subtraction.
LEMMA PlusMinus ==
    ASSUME NEW a \in Numbers, NEW i \in Numbers
    PROVE  (Plus(a, i) - a) % Modulus = i
<1> DEFINE b == Plus(a, i)
<1>1. b = (IF a + i < Modulus THEN a + i ELSE a + i - Modulus) /\ b \in Numbers
  BY PlusCases
<1> HIDE DEF b
<1>2. Modulus \in Nat \ {0} /\ b - a \in -Modulus .. 2 * Modulus - 1
  BY <1>1, WordSize DEF Numbers
<1>3. (b - a) % Modulus = IF b - a < 0 THEN b - a + Modulus
                          ELSE IF b - a < Modulus THEN b - a ELSE b - a - Modulus
  BY <1>2, Remainder, Zenon
<1>4. (b - a) % Modulus = i
  BY <1>1, <1>3, WordSize DEF Numbers
<1> QED
  BY <1>4 DEF b

\* The test of handle_tcp on the signed distance takes an acknowledgement for one of
\* what is in flight exactly when it is not behind it, up to half the word.
LEMMA AckDecides ==
    ASSUME NEW ack \in Numbers, NEW d \in Nat, 2 * d =< Modulus,
           server_unacked_end = Plus(ack, d)
    PROVE  Acknowledges(ack) <=> d = 0
<1> DEFINE e == server_unacked_end
<1>1. Modulus \in Nat \ {0, 1} /\ d \in Numbers
  BY WordSize DEF Numbers
<1>2. e = (IF ack + d < Modulus THEN ack + d ELSE ack + d - Modulus) /\ e \in Numbers
  BY <1>1, PlusCases
<1> HIDE DEF e
<1>3. ack - e \in -Modulus .. 2 * Modulus - 1
  BY <1>1, <1>2 DEF Numbers
<1>4. (ack - e) % Modulus = IF ack - e < 0 THEN ack - e + Modulus
                            ELSE IF ack - e < Modulus THEN ack - e ELSE ack - e - Modulus
  BY <1>1, <1>3, Remainder, Zenon
<1>5. (ack - e) % Modulus = IF d = 0 THEN 0 ELSE Modulus - d
  BY <1>1, <1>2, <1>4 DEF Numbers
<1>6. e # None
  BY <1>2 DEF Numbers, None
<1>7. 0 < Modulus \div 2 /\ Modulus \div 2 =< Modulus - d
  BY <1>1
<1> QED
  BY <1>1, <1>5, <1>6, <1>7 DEF Acknowledges, e

-----------------------------------------------------------------------------
(***************************************************************************)
(* Queues and segments.                                                    *)
(***************************************************************************)
LEMMA TailOf ==
    ASSUME NEW S, NEW q \in Seq(S), q # << >>
    PROVE  /\ Tail(q) \in Seq(S) /\ Len(q) \in Nat /\ Len(q) > 0 /\ Len(Tail(q)) = Len(q) - 1
           /\ Head(q) = q[1] /\ q[1] \in S
           /\ \A i \in 1 .. Len(q) - 1 : Tail(q)[i] = q[i + 1] /\ q[i + 1] \in S
OBVIOUS

LEMMA AppendOf ==
    ASSUME NEW S, NEW q \in Seq(S), NEW x \in S
    PROVE  /\ Append(q, x) \in Seq(S) /\ Len(q) \in Nat /\ Len(Append(q, x)) = Len(q) + 1
           /\ Append(q, x)[Len(q) + 1] = x
           /\ \A i \in 1 .. Len(q) : Append(q, x)[i] = q[i] /\ q[i] \in S
OBVIOUS

\* A segment by its parts.
IsSegment(x, syn, fin, rst, seq, ack, data) ==
    /\ x \in Segments
    /\ x.syn = syn /\ x.fin = fin /\ x.rst = rst
    /\ x.seq = seq /\ x.ack = ack /\ x.data = data

Sent(syn, fin, data, next) ==
    [Nothing EXCEPT !.syn = syn, !.fin = fin, !.data = data, !.seq = server_next, !.ack = next]

LEMMA SentSegment ==
    ASSUME NEW syn \in BOOLEAN, NEW fin \in BOOLEAN, NEW data \in Seq(Nat), NEW next \in Numbers,
           server_next \in Numbers
    PROVE  IsSegment(Sent(syn, fin, data, next), syn, fin, FALSE, server_next, next, data)
<1> DEFINE x == Sent(syn, fin, data, next)
<1>1. /\ x.syn = syn /\ x.fin = fin /\ x.rst = FALSE /\ x.seq = server_next /\ x.ack = next
      /\ x.data = data
  BY DEF Sent, Nothing
<1>2. x \in Segments
  BY DEF Sent, Nothing, Segments
<1> HIDE DEF x
<1>3. IsSegment(x, syn, fin, FALSE, server_next, next, data)
  BY <1>1, <1>2 DEF IsSegment
<1> QED
  BY <1>3 DEF x

\* send_tcp in terms of what it sends.
LEMMA SendTcpEffect ==
    ASSUME NEW syn \in BOOLEAN, NEW fin \in BOOLEAN, NEW data \in Seq(Nat), NEW next, NEW pending,
           SendTcp(syn, fin, data, next, pending)
    PROVE  /\ toGuest' = IF Up THEN Append(toGuest, Sent(syn, fin, data, next)) ELSE toGuest
           /\ host_pending' = pending
           /\ ~syn /\ ~fin /\ data = << >> => UNCHANGED <<server_next, server_unacked_end>>
           /\ syn \/ fin \/ data # << >> =>
                /\ server_next' = Plus(server_next, Len(data) + (IF syn THEN 1 ELSE 0)
                                                              + (IF fin THEN 1 ELSE 0))
                /\ server_unacked_end' = server_next'
<1> DEFINE n == Len(data) + (IF syn THEN 1 ELSE 0) + (IF fin THEN 1 ELSE 0)
<1>1. Len(data) \in Nat /\ (data = << >> <=> Len(data) = 0)
  OBVIOUS
<1>2. n = 0 <=> ~syn /\ ~fin /\ data = << >>
  <2>1. CASE syn
    BY <1>1, <2>1
  <2>2. CASE fin
    BY <1>1, <2>2
  <2>3. CASE ~syn /\ ~fin
    BY <1>1, <2>3
  <2> QED
    BY <2>1, <2>2, <2>3
<1>3. /\ toGuest' = IF Up THEN Append(toGuest, Sent(syn, fin, data, next)) ELSE toGuest
      /\ host_pending' = pending
      /\ IF n = 0 THEN UNCHANGED <<server_next, server_unacked_end>>
         ELSE server_next' = Plus(server_next, n) /\ server_unacked_end' = server_next'
  BY Zenon DEF SendTcp, Sent, Up
<1> HIDE DEF n
<1>4. syn \/ fin \/ data # << >> => n # 0
  BY <1>2
<1> QED
  BY <1>2, <1>3, <1>4, Zenon DEF n

\* The three outcomes of send_host_pending.
Holds(unacked, pending, eof) ==
    /\ unacked # None \/ (pending = << >> /\ (eof => fin_sent))
    /\ host_pending' = pending /\ server_unacked_end' = unacked
    /\ toGuest' = toGuest /\ server_next' = server_next /\ fin_sent' = fin_sent
EndGoes(unacked, pending, eof) ==
    /\ unacked = None /\ pending = << >> /\ eof /\ ~fin_sent
    /\ host_pending' = << >> /\ fin_sent' = TRUE
    /\ toGuest' = IF Up THEN Append(toGuest, Sent(FALSE, TRUE, << >>, guest_next)) ELSE toGuest
    /\ server_next' = Plus(server_next, 1) /\ server_unacked_end' = server_next'
ChunkGoes(unacked, pending, d) ==
    /\ unacked = None /\ d # << >> /\ Len(d) =< ChunkSize
    /\ host_pending' \in Seq(Nat) /\ Len(d) + Len(host_pending') = Len(pending)
    /\ \A k \in 1 .. Len(d) : d[k] = pending[k]
    /\ \A k \in 1 .. Len(host_pending') : host_pending'[k] = pending[Len(d) + k]
    /\ fin_sent' = fin_sent
    /\ toGuest' = IF Up THEN Append(toGuest, Sent(FALSE, FALSE, d, guest_next)) ELSE toGuest
    /\ server_next' = Plus(server_next, Len(d)) /\ server_unacked_end' = server_next'

\* A sequence cut in two.
LEMMA Cut ==
    ASSUME NEW q \in Seq(Nat), NEW n \in 0 .. Len(q)
    PROVE  /\ SubSeq(q, 1, n) \in Seq(Nat) /\ Len(SubSeq(q, 1, n)) = n
           /\ \A k \in 1 .. n : SubSeq(q, 1, n)[k] = q[k]
           /\ SubSeq(q, n + 1, Len(q)) \in Seq(Nat)
           /\ Len(SubSeq(q, n + 1, Len(q))) = Len(q) - n
           /\ \A k \in 1 .. Len(q) - n : SubSeq(q, n + 1, Len(q))[k] = q[n + k]
<1>1. Len(q) \in Nat /\ n \in Int /\ \A i \in 1 .. Len(q) : q[i] \in Nat
  BY ElementOfSeq
<1>2. \A lo, hi \in Int : (\A i \in lo .. hi : q[i] \in Nat) =>
        /\ SubSeq(q, lo, hi) \in Seq(Nat)
        /\ Len(SubSeq(q, lo, hi)) = IF lo =< hi THEN hi - lo + 1 ELSE 0
        /\ \A i \in 1 .. hi - lo + 1 : SubSeq(q, lo, hi)[i] = q[lo + i - 1]
  BY SubSeqProperties
<1> DEFINE a == SubSeq(q, 1, n)
           b == SubSeq(q, n + 1, Len(q))
<1>3. /\ a \in Seq(Nat) /\ Len(a) = IF 1 =< n THEN n - 1 + 1 ELSE 0
      /\ \A i \in 1 .. n - 1 + 1 : a[i] = q[1 + i - 1]
  <2>1. \A i \in 1 .. n : q[i] \in Nat
    BY <1>1
  <2> QED
    BY <1>1, <1>2, <2>1
<1>4. /\ b \in Seq(Nat) /\ Len(b) = IF n + 1 =< Len(q) THEN Len(q) - (n + 1) + 1 ELSE 0
      /\ \A i \in 1 .. Len(q) - (n + 1) + 1 : b[i] = q[n + 1 + i - 1]
  <2>1. \A i \in n + 1 .. Len(q) : q[i] \in Nat
    BY <1>1
  <2>2. n + 1 \in Int /\ Len(q) \in Int
    BY <1>1
  <2> QED
    BY <1>2, <2>1, <2>2
<1> HIDE DEF a, b
<1>5. Len(a) = n /\ \A k \in 1 .. n : a[k] = q[k]
  BY <1>1, <1>3
<1>6. Len(b) = Len(q) - n /\ \A k \in 1 .. Len(q) - n : b[k] = q[n + k]
  <2>1. Len(b) = Len(q) - n
    BY <1>1, <1>4
  <2>2. \A k \in 1 .. Len(q) - n : k \in 1 .. Len(q) - (n + 1) + 1 /\ n + 1 + k - 1 = n + k
    BY <1>1
  <2> QED
    BY <1>4, <2>1, <2>2
<1> QED
  BY <1>3, <1>4, <1>5, <1>6, Zenon DEF a, b

\* What read_host adds continues what is waiting.
LEMMA ReadAppends ==
    ASSUME NEW q \in Seq(Nat), NEW n \in Nat, NEW from \in Nat, n + Len(q) = from,
           Continues(q, n), NEW upto \in from + 1 .. HostBytes
    PROVE  /\ q \o HostStream(from, upto) \in Seq(Nat)
           /\ n + Len(q \o HostStream(from, upto)) = upto
           /\ Continues(q \o HostStream(from, upto), n)
<1> DEFINE h == HostStream(from, upto)
           p == q \o h
<1>0. Len(q) \in Nat /\ upto \in Nat /\ HostBytes \in Nat
  BY WordSize
<1>1. /\ h \in Seq(Nat) /\ Len(h) = upto - from
      /\ \A k \in 1 .. upto - from : h[k] = from + k
  BY <1>0 DEF HostStream
<1>h. h \in Seq(Nat)
  BY <1>1
<1> HIDE DEF h
<1>2. /\ p \in Seq(Nat) /\ Len(p) = Len(q) + Len(h)
      /\ \A k \in 1 .. Len(q) + Len(h) : p[k] = IF k =< Len(q) THEN q[k] ELSE h[k - Len(q)]
  BY <1>h, ConcatProperties
<1> HIDE DEF p
<1>3. n + Len(p) = upto
  <2>1. Len(p) = Len(q) + Len(h) /\ Len(h) = upto - from
    BY <1>1, <1>2, Zenon
  <2> QED
    BY <1>0, <2>1
<1>4. ASSUME NEW k \in 1 .. Len(p) PROVE p[k] = n + k
  <2>1. CASE k =< Len(q)
    BY <1>0, <1>1, <1>2, <2>1 DEF Continues
  <2>2. CASE k > Len(q)
    <3>1. k - Len(q) \in 1 .. upto - from
      BY <1>0, <1>3, <2>2
    <3>2. h[k - Len(q)] = from + (k - Len(q))
      BY <1>1, <3>1
    <3>3. p[k] = h[k - Len(q)]
      BY <1>0, <1>1, <1>2, <2>2
    <3> QED
      BY <1>0, <3>2, <3>3
  <2> QED
    BY <1>0, <2>1, <2>2
<1>5. Continues(p, n)
  BY <1>4 DEF Continues
<1> QED
  BY <1>2, <1>3, <1>5 DEF p, h

LEMMA PendingEffect ==
    ASSUME NEW unacked, NEW pending \in Seq(Nat), NEW eof \in BOOLEAN,
           SendHostPending(unacked, pending, eof)
    PROVE  \/ Holds(unacked, pending, eof)
           \/ EndGoes(unacked, pending, eof)
           \/ \E d \in Seq(Nat) : ChunkGoes(unacked, pending, d)
<1> DEFINE n == IF Len(pending) < ChunkSize THEN Len(pending) ELSE ChunkSize
<1>1. CASE unacked # None
  <2>1. Holds(unacked, pending, eof)
    BY <1>1, Zenon DEF SendHostPending, Idle, Holds
  <2> QED
    BY <2>1
<1>2. CASE unacked = None /\ pending = << >> /\ eof /\ ~fin_sent
  <2>1. fin_sent' = TRUE /\ SendTcp(FALSE, TRUE, << >>, guest_next, pending)
    BY <1>2, Zenon DEF SendHostPending, Idle, FinIsDue
  <2>2. << >> \in Seq(Nat) /\ Len(<< >>) + 0 + 1 = 1
    OBVIOUS
  <2>3. /\ toGuest' = IF Up THEN Append(toGuest, Sent(FALSE, TRUE, << >>, guest_next))
                            ELSE toGuest
        /\ host_pending' = pending
        /\ server_next' = Plus(server_next, 1)
        /\ server_unacked_end' = server_next'
    <3> DEFINE m == Len(<< >>) + (IF FALSE THEN 1 ELSE 0) + (IF TRUE THEN 1 ELSE 0)
    <3>1. /\ toGuest' = IF Up THEN Append(toGuest, Sent(FALSE, TRUE, << >>, guest_next))
                              ELSE toGuest
          /\ host_pending' = pending
          /\ server_next' = Plus(server_next, m)
          /\ server_unacked_end' = server_next'
      BY <2>1, <2>2, SendTcpEffect
    <3>2. m = 1
      OBVIOUS
    <3> QED
      BY <3>1, <3>2
  <2>4. EndGoes(unacked, pending, eof)
    BY <1>2, <2>1, <2>3, Zenon DEF EndGoes
  <2> QED
    BY <2>4
<1>3. CASE unacked = None /\ pending = << >> /\ ~(eof /\ ~fin_sent)
  <2>1. Holds(unacked, pending, eof)
    BY <1>3, Zenon DEF SendHostPending, Idle, FinIsDue, Holds
  <2> QED
    BY <2>1
<1>4. CASE unacked = None /\ pending # << >>
  <2> DEFINE d == SubSeq(pending, 1, n)
             r == SubSeq(pending, n + 1, Len(pending))
  <2>1. fin_sent' = fin_sent /\ SendTcp(FALSE, FALSE, d, guest_next, r)
    BY <1>4, Zenon DEF SendHostPending, Idle, FinIsDue
  <2>2. Len(pending) \in Nat /\ Len(pending) > 0 /\ ChunkSize \in Nat \ {0}
    BY <1>4, WordSize
  <2>3. n \in 1 .. Len(pending) /\ n =< ChunkSize
    BY <2>2
  <2> HIDE DEF n
  <2>4. /\ d \in Seq(Nat) /\ Len(d) = n /\ \A k \in 1 .. n : d[k] = pending[k]
        /\ r \in Seq(Nat) /\ Len(r) = Len(pending) - n
        /\ \A k \in 1 .. Len(pending) - n : r[k] = pending[n + k]
    BY <2>2, <2>3, Cut
  <2> HIDE DEF d, r
  <2>5. d # << >>
    BY <2>3, <2>4
  <2>6. /\ toGuest' = IF Up THEN Append(toGuest, Sent(FALSE, FALSE, d, guest_next)) ELSE toGuest
        /\ host_pending' = r
        /\ server_next' = Plus(server_next, Len(d))
        /\ server_unacked_end' = server_next'
    <3> DEFINE m == Len(d) + (IF FALSE THEN 1 ELSE 0) + (IF FALSE THEN 1 ELSE 0)
    <3>1. /\ toGuest' = IF Up THEN Append(toGuest, Sent(FALSE, FALSE, d, guest_next))
                              ELSE toGuest
          /\ host_pending' = r
          /\ server_next' = Plus(server_next, m)
          /\ server_unacked_end' = server_next'
      BY <2>1, <2>4, <2>5, SendTcpEffect
    <3>2. m = Len(d)
      BY <2>3, <2>4
    <3> QED
      BY <3>1, <3>2
  <2>7. ChunkGoes(unacked, pending, d)
    <3>1. Len(d) =< ChunkSize /\ Len(d) + Len(r) = Len(pending)
      BY <2>2, <2>3, <2>4
    <3>2. \A k \in 1 .. Len(d) : d[k] = pending[k]
      BY <2>4
    <3>3. \A k \in 1 .. Len(r) : r[k] = pending[Len(d) + k]
      BY <2>4
    <3> QED
      BY <1>4, <2>1, <2>4, <2>5, <2>6, <3>1, <3>2, <3>3, Zenon DEF ChunkGoes
  <2> QED
    BY <2>4, <2>7
<1> QED
  BY <1>1, <1>2, <1>3, <1>4

\* The segments of the guest.
LEMMA GuestSegments ==
    ASSUME Types, NEW seq \in Numbers, NEW ack \in Numbers, NEW data \in Seq(Nat),
           NEW fin \in BOOLEAN
    PROVE  /\ IsSegment(GuestSegment(seq, data, fin), FALSE, fin, FALSE, seq, rcv, data)
           /\ IsSegment([Nothing EXCEPT !.seq = seq, !.ack = ack],
                        FALSE, FALSE, FALSE, seq, ack, << >>)
           /\ IsSegment([Nothing EXCEPT !.syn = TRUE, !.seq = seq],
                        TRUE, FALSE, FALSE, seq, 0, << >>)
           /\ IsSegment([Nothing EXCEPT !.rst = TRUE, !.seq = seq],
                        FALSE, FALSE, TRUE, seq, 0, << >>)
<1>1. 0 \in Numbers /\ rcv \in Numbers /\ << >> \in Seq(Nat)
  BY WordSize DEF Numbers, Types
<1>2. IsSegment(GuestSegment(seq, data, fin), FALSE, fin, FALSE, seq, rcv, data)
  <2> DEFINE x == GuestSegment(seq, data, fin)
  <2>1. /\ x.syn = FALSE /\ x.fin = fin /\ x.rst = FALSE /\ x.seq = seq /\ x.ack = rcv
        /\ x.data = data
    BY DEF GuestSegment, Nothing
  <2>2. x \in Segments
    BY <1>1 DEF GuestSegment, Nothing, Segments
  <2> HIDE DEF x
  <2>3. IsSegment(x, FALSE, fin, FALSE, seq, rcv, data)
    BY <2>1, <2>2 DEF IsSegment
  <2> QED
    BY <2>3 DEF x
<1>3. IsSegment([Nothing EXCEPT !.seq = seq, !.ack = ack], FALSE, FALSE, FALSE, seq, ack, << >>)
  <2> DEFINE x == [Nothing EXCEPT !.seq = seq, !.ack = ack]
  <2>1. /\ x.syn = FALSE /\ x.fin = FALSE /\ x.rst = FALSE /\ x.seq = seq /\ x.ack = ack
        /\ x.data = << >>
    BY DEF Nothing
  <2>2. x \in Segments
    BY <1>1 DEF Nothing, Segments
  <2> HIDE DEF x
  <2>3. IsSegment(x, FALSE, FALSE, FALSE, seq, ack, << >>)
    BY <2>1, <2>2 DEF IsSegment
  <2> QED
    BY <2>3 DEF x
<1>4. IsSegment([Nothing EXCEPT !.syn = TRUE, !.seq = seq], TRUE, FALSE, FALSE, seq, 0, << >>)
  <2> DEFINE x == [Nothing EXCEPT !.syn = TRUE, !.seq = seq]
  <2>1. /\ x.syn = TRUE /\ x.fin = FALSE /\ x.rst = FALSE /\ x.seq = seq /\ x.ack = 0
        /\ x.data = << >>
    BY DEF Nothing
  <2>2. x \in Segments
    BY <1>1 DEF Nothing, Segments
  <2> HIDE DEF x
  <2>3. IsSegment(x, TRUE, FALSE, FALSE, seq, 0, << >>)
    BY <2>1, <2>2 DEF IsSegment
  <2> QED
    BY <2>3 DEF x
<1>5. IsSegment([Nothing EXCEPT !.rst = TRUE, !.seq = seq], FALSE, FALSE, TRUE, seq, 0, << >>)
  <2> DEFINE x == [Nothing EXCEPT !.rst = TRUE, !.seq = seq]
  <2>1. /\ x.syn = FALSE /\ x.fin = FALSE /\ x.rst = TRUE /\ x.seq = seq /\ x.ack = 0
        /\ x.data = << >>
    BY DEF Nothing
  <2>2. x \in Segments
    BY <1>1 DEF Nothing, Segments
  <2> HIDE DEF x
  <2>3. IsSegment(x, FALSE, FALSE, TRUE, seq, 0, << >>)
    BY <2>1, <2>2 DEF IsSegment
  <2> QED
    BY <2>3 DEF x
<1> QED
  BY <1>2, <1>3, <1>4, <1>5

LEMMA PlusType ==
    ASSUME NEW a \in Numbers, NEW n \in Nat
    PROVE  Plus(a, n) \in Numbers
<1>1. a + n \in Int /\ Modulus \in Nat \ {0} /\ a \in Int /\ n \in Int
  BY WordSize DEF Numbers
<1>2. \A x \in Int, m \in Nat \ {0} : x % m \in 0 .. m - 1
  OBVIOUS
<1> QED
  BY <1>1, <1>2 DEF Plus, Numbers

-----------------------------------------------------------------------------
(***************************************************************************)
(* Types.                                                                  *)
(***************************************************************************)

\* What send_tcp changes, and its types.
Sending == <<toGuest, host_pending, server_next, server_unacked_end>>
SendingTypes ==
    /\ toGuest \in Seq(Segments) /\ host_pending \in Seq(Nat) /\ server_next \in Numbers
    /\ server_unacked_end \in Numbers \cup {None}
OtherTypes ==
    /\ link \in {"up", "down"}
    /\ toProxy \in Seq(Segments) /\ frame \in Segments
    /\ handler \in {"idle", "connecting", "data", "ack", "fin", "close", "ended"}
    /\ reader \in {"none", "reading", "done"} /\ host_writer \in {"none", "open", "closed"}
    /\ guest_pending \in Seq(Nat) /\ guest_next \in Numbers
    /\ hostSent \in 0 .. HostBytes /\ hostGot \in Seq(Nat)
    /\ guest \in {"closed", "connecting", "open", "reset"}
    /\ snd \in Numbers /\ una \in Numbers /\ rcv \in Numbers
    /\ guestSent \in 0 .. GuestBytes /\ guestGot \in Seq(Nat)
    /\ finSeq \in Numbers \cup {None}
    /\ syns \in 0 .. MaxSyns

LEMMA TypesParts == (Types <=> SendingTypes /\ OtherTypes) /\ (Types' <=> SendingTypes' /\ OtherTypes')
BY DEF Types, SendingTypes, OtherTypes

LEMMA SendTcpTypes ==
    ASSUME SendingTypes, NEW syn \in BOOLEAN, NEW fin \in BOOLEAN, NEW data \in Seq(Nat),
           NEW next \in Numbers, NEW pending \in Seq(Nat), SendTcp(syn, fin, data, next, pending)
    PROVE  SendingTypes'
<1> DEFINE n == Len(data) + (IF syn THEN 1 ELSE 0) + (IF fin THEN 1 ELSE 0)
           x == Sent(syn, fin, data, next)
<1>1. x \in Segments
  BY SentSegment DEF IsSegment, SendingTypes
<1>2. n \in Nat
  <2>1. Len(data) \in Nat /\ (IF syn THEN 1 ELSE 0) \in Nat /\ (IF fin THEN 1 ELSE 0) \in Nat
    OBVIOUS
  <2>2. \A i, j, k \in Nat : i + j + k \in Nat
    OBVIOUS
  <2> QED
    BY <2>1, <2>2, Zenon
<1>3. Plus(server_next, n) \in Numbers
  BY <1>2, PlusType DEF SendingTypes
<1> HIDE DEF x, n
<1>4. /\ toGuest' = IF Up THEN Append(toGuest, x) ELSE toGuest
      /\ host_pending' = pending
      /\ \/ UNCHANGED <<server_next, server_unacked_end>>
         \/ server_next' = Plus(server_next, n) /\ server_unacked_end' = server_next'
  BY SendTcpEffect DEF x, n
<1>5. toGuest' \in Seq(Segments)
  BY <1>1, <1>4, AppendOf DEF SendingTypes
<1> QED
  BY <1>3, <1>4, <1>5 DEF SendingTypes

LEMMA PendingTypes ==
    ASSUME SendingTypes, guest_next \in Numbers, NEW unacked \in Numbers \cup {None},
           NEW pending \in Seq(Nat), NEW eof \in BOOLEAN,
           SendHostPending(unacked, pending, eof)
    PROVE  SendingTypes'
<1>1. CASE Holds(unacked, pending, eof)
  BY <1>1 DEF Holds, SendingTypes
<1>2. CASE EndGoes(unacked, pending, eof)
  <2> DEFINE x == Sent(FALSE, TRUE, << >>, guest_next)
  <2>1. << >> \in Seq(Nat) /\ x \in Segments
    <3>1. << >> \in Seq(Nat)
      OBVIOUS
    <3> QED
      BY <3>1, SentSegment DEF IsSegment, SendingTypes
  <2>2. Plus(server_next, 1) \in Numbers
    BY PlusType DEF SendingTypes
  <2>3. /\ toGuest' = IF Up THEN Append(toGuest, x) ELSE toGuest
        /\ host_pending' = << >>
        /\ server_next' = Plus(server_next, 1) /\ server_unacked_end' = server_next'
    BY <1>2, Zenon DEF EndGoes
  <2> HIDE DEF x
  <2>4. toGuest' \in Seq(Segments)
    BY <2>1, <2>3, AppendOf DEF SendingTypes
  <2> QED
    BY <2>1, <2>2, <2>3, <2>4 DEF SendingTypes
<1>3. ASSUME NEW d \in Seq(Nat), ChunkGoes(unacked, pending, d)
      PROVE  SendingTypes'
  <2> DEFINE x == Sent(FALSE, FALSE, d, guest_next)
  <2>1. x \in Segments
    BY SentSegment DEF IsSegment, SendingTypes
  <2>2. Plus(server_next, Len(d)) \in Numbers
    BY PlusType DEF SendingTypes
  <2>3. /\ toGuest' = IF Up THEN Append(toGuest, x) ELSE toGuest
        /\ host_pending' \in Seq(Nat)
        /\ server_next' = Plus(server_next, Len(d)) /\ server_unacked_end' = server_next'
    BY <1>3, Zenon DEF ChunkGoes
  <2> HIDE DEF x
  <2>4. toGuest' \in Seq(Segments)
    BY <2>1, <2>3, AppendOf DEF SendingTypes
  <2> QED
    BY <2>2, <2>3, <2>4 DEF SendingTypes
<1> QED
  BY <1>1, <1>2, <1>3, PendingEffect

\* The segment that the frame task takes.
LEMMA Taken ==
    ASSUME toProxy \in Seq(Segments), toProxy # << >>, Takes
    PROVE  /\ Segment \in Segments /\ toProxy' \in Seq(Segments) /\ Segment = toProxy[1]
           /\ Len(toProxy) \in Nat /\ Len(toProxy) > 0 /\ Len(toProxy') = Len(toProxy) - 1
           /\ \A i \in 1 .. Len(toProxy') : toProxy'[i] = toProxy[i + 1] /\ i + 1 \in 1 .. Len(toProxy)
BY TailOf DEF Segment, Takes

\* The segment that the guest takes.
LEMMA Received ==
    ASSUME toGuest \in Seq(Segments), toGuest # << >>, toGuest' = Tail(toGuest)
    PROVE  /\ Head(toGuest) \in Segments /\ toGuest' \in Seq(Segments)
           /\ Head(toGuest) = toGuest[1]
           /\ Len(toGuest) \in Nat /\ Len(toGuest) > 0 /\ Len(toGuest') = Len(toGuest) - 1
           /\ \A i \in 1 .. Len(toGuest') : toGuest'[i] = toGuest[i + 1] /\ i + 1 \in 1 .. Len(toGuest)
BY TailOf

\* A segment that the guest sends.
LEMMA Emitted ==
    ASSUME toProxy \in Seq(Segments), NEW x \in Segments, Emit(x)
    PROVE  /\ toProxy' \in Seq(Segments) /\ Len(toProxy) \in Nat /\ Len(toProxy') = Len(toProxy) + 1
           /\ toProxy'[Len(toProxy) + 1] = x
           /\ \A i \in 1 .. Len(toProxy) : toProxy'[i] = toProxy[i]
BY AppendOf DEF Emit

LEMMA TypesFrame ==
    ASSUME Types, host_eof \in BOOLEAN, FrameTask
    PROVE  Types'
<1>0. /\ SendingTypes /\ OtherTypes
      /\ toProxy \in Seq(Segments) /\ frame \in Segments /\ guest_next \in Numbers
      /\ host_pending \in Seq(Nat) /\ hostGot \in Seq(Nat) /\ guest_pending \in Seq(Nat)
  BY TypesParts DEF OtherTypes, SendingTypes
<1>e. << >> \in Seq(Nat)
  OBVIOUS
<1>1. ASSUME Ready, Takes PROVE toProxy' \in Seq(Segments) /\ Segment \in Segments
  BY <1>0, <1>1, Taken DEF Ready
<1>2. \A a \in Numbers, n \in Nat : Plus(a, n) \in Numbers
  BY PlusType
<1>3. CASE HandleRst
  <2>1. toProxy' \in Seq(Segments)
    BY <1>1, <1>3 DEF HandleRst
  <2>2. UNCHANGED <<link, toGuest, tasks, proxy, host, peer>>
    BY <1>3 DEF HandleRst
  <2> QED
    BY <2>1, <2>2 DEF Types, tasks, proxy, host, peer
<1>4. CASE HandleSyn
  <2>1. toProxy' \in Seq(Segments) /\ Segment.seq \in Numbers
    BY <1>1, <1>4 DEF HandleSyn, Segments
  <2>2. guest_next' \in Numbers
    BY <1>2, <1>4, <2>1 DEF HandleSyn
  <2>3. /\ handler' \in {handler, "connecting"}
        /\ UNCHANGED <<link, frame, reader, host_writer, guest_pending, host, peer>>
    BY <1>4 DEF HandleSyn
  <2>4. SendingTypes'
    <3>1. CASE UNCHANGED Sending
      BY <1>0, <3>1 DEF SendingTypes, Sending
    <3>2. CASE SynAck
      <4>1. << >> \in Seq(Nat) /\ SendTcp(TRUE, FALSE, << >>, guest_next', host_pending)
        BY <1>e, <3>2, Zenon DEF SynAck
      <4> QED
        BY <1>0, <2>2, <4>1, SendTcpTypes
    <3> QED
      BY <1>4, <3>1, <3>2 DEF HandleSyn, Sending
  <2>5. OtherTypes'
    BY <1>0, <2>1, <2>2, <2>3 DEF OtherTypes, host, peer
  <2> QED
    BY <2>4, <2>5, TypesParts
<1>5. CASE ConnectHost
  <2>1. << >> \in Seq(Nat) /\ SendTcp(TRUE, FALSE, << >>, guest_next', host_pending)
    BY <1>e, <1>5, Zenon DEF ConnectHost, SynAck
  <2>2. /\ host_writer' = "open" /\ reader' = "reading" /\ handler' = "idle"
        /\ hostGot' = hostGot \o guest_pending /\ guest_pending' = << >>
        /\ guest_next' = guest_next
        /\ UNCHANGED <<link, toProxy, frame, hostSent, peer>>
    BY <1>5 DEF ConnectHost
  <2>3. SendingTypes'
    BY <1>0, <2>1, <2>2, SendTcpTypes
  <2>4. hostGot' \in Seq(Nat)
    BY <1>0, <2>2, ConcatProperties
  <2>5. OtherTypes'
    BY <1>0, <2>1, <2>2, <2>4 DEF OtherTypes, peer
  <2> QED
    BY <2>3, <2>5, TypesParts
<1>6. CASE HandleAck
  <2>1. toProxy' \in Seq(Segments) /\ Segment \in Segments
    BY <1>1, <1>6 DEF HandleAck, Ordinary
  <2>2. /\ frame' = Segment /\ handler' = "data"
        /\ SendHostPending(None, host_pending, host_eof)
        /\ UNCHANGED <<link, reader, host_writer, guest_pending, guest_next, host, peer>>
    BY <1>6 DEF HandleAck
  <2>3. SendingTypes'
    BY <1>0, <2>2, PendingTypes
  <2>4. OtherTypes'
    BY <1>0, <2>1, <2>2 DEF OtherTypes, host, peer
  <2> QED
    BY <2>3, <2>4, TypesParts
<1>7. ASSUME NEW x \in Segments, Deliver(x), toProxy' \in Seq(Segments)
      PROVE  Types'
  <2>1. x.data \in Seq(Nat) /\ Len(x.data) \in Nat
    BY <1>7 DEF Segments
  <2>2. /\ frame' = x /\ handler' \in {"fin", "idle", "ack"}
        /\ guest_next' \in {guest_next, Plus(guest_next, Len(x.data))}
        /\ guest_pending' \in {guest_pending, guest_pending \o x.data}
        /\ hostGot' \in {hostGot, hostGot \o x.data}
        /\ UNCHANGED <<link, reader, host_writer, Sending, hostSent, peer>>
    BY <1>7 DEF Deliver, Rest, Sending
  <2>3. /\ guest_next' \in Numbers /\ guest_pending' \in Seq(Nat) /\ hostGot' \in Seq(Nat)
    <3>1. guest_pending \o x.data \in Seq(Nat) /\ hostGot \o x.data \in Seq(Nat)
      BY <1>0, <2>1, ConcatProperties
    <3>2. Plus(guest_next, Len(x.data)) \in Numbers
      BY <1>0, <1>2, <2>1
    <3> QED
      BY <1>0, <2>2, <3>1, <3>2
  <2>4. SendingTypes'
    BY <1>0, <2>2 DEF SendingTypes, Sending
  <2>5. OtherTypes'
    BY <1>0, <1>7, <2>2, <2>3 DEF OtherTypes, peer
  <2> QED
    BY <2>4, <2>5, TypesParts
<1>8. CASE HandleData
  <2>1. CASE Ordinary /\ ~Acknowledges(Segment.ack) /\ Takes /\ Deliver(Segment)
    BY <1>1, <1>7, <2>1 DEF Ordinary
  <2>2. CASE Up /\ handler = "data" /\ UNCHANGED toProxy /\ Deliver(frame)
    BY <1>0, <1>7, <2>2
  <2> QED
    BY <1>8, <2>1, <2>2 DEF HandleData
<1>9. ASSUME NEW next \in Numbers, SendAck(next) PROVE SendingTypes'
  <2>1. << >> \in Seq(Nat) /\ SendTcp(FALSE, FALSE, << >>, next, host_pending)
    BY <1>e, <1>9, Zenon DEF SendAck
  <2> QED
    BY <1>0, <2>1, SendTcpTypes
<1>10. CASE AckData
  <2>1. /\ handler' \in {"fin", "idle"} /\ SendAck(guest_next)
        /\ UNCHANGED <<link, toProxy, frame, reader, host_writer, guest_pending, guest_next, host,
                       peer>>
    BY <1>10 DEF AckData, Rest
  <2>2. OtherTypes'
    BY <1>0, <2>1 DEF OtherTypes, host, peer
  <2> QED
    BY <1>0, <1>9, <2>1, <2>2, TypesParts
<1>11. CASE HandleFin
  <2>1. /\ handler' = "close" /\ guest_next' = AfterFin /\ SendAck(guest_next')
        /\ UNCHANGED <<link, toProxy, frame, reader, host_writer, guest_pending, host, peer>>
    BY <1>11 DEF HandleFin
  <2>2. guest_next' \in Numbers
    BY <1>0, <1>2, <2>1 DEF AfterFin
  <2>3. OtherTypes'
    BY <1>0, <2>1, <2>2 DEF OtherTypes, host, peer
  <2> QED
    BY <1>9, <2>1, <2>2, <2>3, TypesParts
<1>12. CASE CloseHost
  <2>1. /\ handler' = "idle" /\ host_writer' \in {"none", "closed"}
        /\ UNCHANGED <<link, toProxy, toGuest, frame, reader, proxy, host, peer>>
    BY <1>12 DEF CloseHost
  <2> QED
    BY <2>1 DEF Types, proxy, host, peer
<1> QED
  BY <1>3, <1>4, <1>5, <1>6, <1>8, <1>10, <1>11, <1>12 DEF FrameTask

LEMMA TypesOthers ==
    ASSUME Types, host_eof \in BOOLEAN, 
           ConnectFails \/ DrainFails \/ ReadTask \/ Disconnect \/ UNCHANGED vars
    PROVE  Types'
<1>0. SendingTypes /\ OtherTypes /\ host_pending \in Seq(Nat) /\ hostSent \in 0 .. HostBytes
      /\ HostBytes \in Nat /\ guest_next \in Numbers
      /\ server_unacked_end \in Numbers \cup {None}
  BY TypesParts, WordSize DEF OtherTypes, SendingTypes
<1>1. CASE ConnectFails \/ Disconnect
  <2>1. /\ link' = "down" /\ handler' = "ended"
        /\ UNCHANGED <<toProxy, toGuest, frame, reader, host_writer, proxy, host, peer>>
    BY <1>1 DEF ConnectFails, Disconnect
  <2> QED
    BY <2>1 DEF Types, proxy, host, peer
<1>2. CASE ReadHost
  <2>1. PICK upto \in hostSent + 1 .. HostBytes :
          /\ hostSent' = upto
          /\ SendHostPending(server_unacked_end, host_pending \o HostStream(hostSent, upto),
                             host_eof)
    BY <1>2 DEF ReadHost
  <2>2. UNCHANGED <<link, toProxy, tasks, guest_pending, guest_next, hostGot, peer>>
    BY <1>2 DEF ReadHost
  <2>3. HostStream(hostSent, upto) \in Seq(Nat)
    BY <1>0 DEF HostStream
  <2>4. host_pending \o HostStream(hostSent, upto) \in Seq(Nat)
    BY <1>0, <2>3, ConcatProperties
  <2>5. SendingTypes'
    BY <1>0, <2>1, <2>4, PendingTypes
  <2>6. OtherTypes'
    BY <1>0, <2>1, <2>2 DEF OtherTypes, tasks, peer
  <2> QED
    BY <2>5, <2>6, TypesParts
<1>3. CASE ReadEof
  <2>1. /\ reader' = "done" /\ SendHostPending(server_unacked_end, host_pending, TRUE)
        /\ UNCHANGED <<link, toProxy, handler, frame, host_writer, guest_pending, guest_next, host,
                       peer>>
    BY <1>3 DEF ReadEof
  <2>2. SendingTypes'
    BY <1>0, <2>1, PendingTypes
  <2>3. OtherTypes'
    BY <1>0, <2>1 DEF OtherTypes, host, peer
  <2> QED
    BY <2>2, <2>3, TypesParts
<1>4. CASE UNCHANGED vars
  BY <1>4 DEF Types, vars, tasks, proxy, host, peer
<1>5. ASSUME NEW x \in Segments, DrainRaises(x), toProxy' \in Seq(Segments)
      PROVE  Types'
  <2>1. Len(x.data) \in Nat
    BY <1>5 DEF Segments
  <2>2. /\ frame' = x /\ guest_next' = Plus(guest_next, Len(x.data))
        /\ link' = "down" /\ handler' = "ended"
        /\ UNCHANGED <<Sending, reader, host_writer, guest_pending, host, peer>>
    BY <1>5 DEF DrainRaises, Sending
  <2>3. guest_next' \in Numbers
    BY <1>0, <2>1, <2>2, PlusType
  <2>4. SendingTypes'
    BY <1>0, <2>2 DEF SendingTypes, Sending
  <2>5. OtherTypes'
    BY <1>0, <1>5, <2>2, <2>3 DEF OtherTypes, host, peer
  <2> QED
    BY <2>4, <2>5, TypesParts
<1>6. CASE DrainFails
  <2>1. toProxy \in Seq(Segments)
    BY <1>0 DEF OtherTypes
  <2>2. toProxy # << >> /\ Takes /\ DrainRaises(Segment)
    BY <1>6 DEF DrainFails, Ordinary, Ready
  <2> QED
    BY <1>5, <2>1, <2>2, Taken
<1> QED
  BY <1>1, <1>2, <1>3, <1>4, <1>6 DEF ReadTask

LEMMA TypesGuest ==
    ASSUME Types, Guest
    PROVE  Types'
<1>0. /\ toProxy \in Seq(Segments) /\ snd \in Numbers /\ una \in Numbers /\ rcv \in Numbers
      /\ guestSent \in 0 .. GuestBytes /\ GuestBytes \in Nat /\ GuestIsn \in Numbers
      /\ << >> \in Seq(Nat)
  BY WordSize DEF Types
<1>1. \A a \in Numbers, n \in Nat : Plus(a, n) \in Numbers
  BY PlusType
<1>2. ASSUME NEW x \in Segments, Emit(x) PROVE toProxy' \in Seq(Segments)
  BY <1>0, <1>2, Emitted
<1>3. \A seq \in Numbers, data \in Seq(Nat), fin \in BOOLEAN :
        GuestSegment(seq, data, fin) \in Segments
  BY <1>0, GuestSegments DEF IsSegment
<1>4. CASE GuestConnect
  <2>1. [Nothing EXCEPT !.syn = TRUE, !.seq = GuestIsn] \in Segments
    BY <1>0, GuestSegments DEF IsSegment
  <2>2. toProxy' \in Seq(Segments)
    BY <1>2, <1>4, <2>1 DEF GuestConnect
  <2>3. /\ guest' = "connecting" /\ syns' = syns + 1 /\ syns < MaxSyns
        /\ snd' = Plus(GuestIsn, 1) /\ una' = GuestIsn
        /\ UNCHANGED <<link, toGuest, tasks, proxy, host, rcv, guestSent, guestGot, finSeq>>
    BY <1>4 DEF GuestConnect
  <2>4. snd' \in Numbers
    BY <1>0, <1>1, <2>3
  <2> QED
    BY <1>0, <2>2, <2>3, <2>4, WordSize DEF Types, tasks, proxy, host
<1>5. CASE GuestReceive
  <2> DEFINE s == Head(toGuest)
  <2>1. s \in Segments /\ toGuest' \in Seq(Segments)
    BY <1>5, Received DEF GuestReceive, Types
  <2>2. s.ack \in Numbers /\ s.seq \in Numbers /\ s.data \in Seq(Nat) /\ Len(s.data) \in Nat
    BY <2>1 DEF Segments
  <2>3. /\ guest' \in {guest, "open"} /\ una' = s.ack
        /\ rcv' \in {Plus(s.seq, 1), Plus(rcv, Len(s.data) + 1), Plus(rcv, Len(s.data) + 0), rcv}
        /\ guestGot' \in {guestGot, guestGot \o s.data}
        /\ toProxy' = toProxy \/ Emit([Nothing EXCEPT !.seq = snd, !.ack = rcv'])
        /\ UNCHANGED <<link, tasks, proxy, host, snd, guestSent, finSeq, syns>>
    BY <1>5 DEF GuestReceive
  <2>4. rcv' \in Numbers
    <3> HIDE DEF s
    <3>1. 1 \in Nat /\ Len(s.data) + 1 \in Nat /\ Len(s.data) + 0 \in Nat
      BY <2>2
    <3>2. /\ Plus(s.seq, 1) \in Numbers /\ Plus(rcv, Len(s.data) + 1) \in Numbers
          /\ Plus(rcv, Len(s.data) + 0) \in Numbers
      BY <1>0, <1>1, <2>2, <3>1, Zenon
    <3> QED
      BY <1>0, <2>3, <3>2, Zenon
  <2>5. guestGot' \in Seq(Nat)
    <3>1. guestGot \o s.data \in Seq(Nat)
      BY <2>2, ConcatProperties DEF Types
    <3> QED
      BY <2>3, <3>1 DEF Types
  <2>6. toProxy' \in Seq(Segments)
    <3>1. [Nothing EXCEPT !.seq = snd, !.ack = rcv'] \in Segments
      BY <1>0, <2>4, GuestSegments DEF IsSegment
    <3> QED
      BY <1>0, <1>2, <2>3, <3>1
  <2> QED
    BY <2>1, <2>2, <2>3, <2>4, <2>5, <2>6 DEF Types, tasks, proxy, host
<1>6. CASE GuestSend
  <2>1. <<guestSent + 1>> \in Seq(Nat)
    BY <1>0
  <2>2. toProxy' \in Seq(Segments)
    BY <1>0, <1>2, <1>3, <1>6, <2>1 DEF GuestSend
  <2>3. /\ guestSent' = guestSent + 1 /\ snd' = Plus(snd, 1) /\ guestSent < GuestBytes
        /\ UNCHANGED <<link, toGuest, tasks, proxy, host, guest, una, rcv, guestGot, finSeq, syns>>
    BY <1>6 DEF GuestSend
  <2>4. snd' \in Numbers
    BY <1>0, <1>1, <2>3
  <2> QED
    BY <1>0, <2>2, <2>3, <2>4 DEF Types, tasks, proxy, host
<1>7. CASE GuestFin
  <2>1. toProxy' \in Seq(Segments)
    BY <1>0, <1>2, <1>3, <1>7 DEF GuestFin
  <2>2. /\ finSeq' = snd /\ snd' = Plus(snd, 1)
        /\ UNCHANGED <<link, toGuest, tasks, proxy, host, guest, una, rcv, guestSent, guestGot, syns>>
    BY <1>7 DEF GuestFin
  <2>3. snd' \in Numbers
    BY <1>0, <1>1, <2>2
  <2> QED
    BY <1>0, <2>1, <2>2, <2>3 DEF Types, tasks, proxy, host
<1>8. CASE GuestFinWithData
  <2>1. <<guestSent + 1>> \in Seq(Nat)
    BY <1>0
  <2>2. toProxy' \in Seq(Segments)
    BY <1>0, <1>2, <1>3, <1>8, <2>1 DEF GuestFinWithData
  <2>3. /\ guestSent' = guestSent + 1 /\ finSeq' = Plus(snd, 1) /\ snd' = Plus(snd, 2)
        /\ guestSent < GuestBytes
        /\ UNCHANGED <<link, toGuest, tasks, proxy, host, guest, una, rcv, guestGot, syns>>
    BY <1>8 DEF GuestFinWithData
  <2>4. snd' \in Numbers /\ finSeq' \in Numbers
    BY <1>0, <1>1, <2>3
  <2> QED
    BY <1>0, <2>2, <2>3, <2>4 DEF Types, tasks, proxy, host
<1>9. CASE GuestRepeat
  <2>1. (una - GuestIsn) % Modulus \in Nat
    <3>1. una - GuestIsn \in Int /\ Modulus \in Nat \ {0} /\ una \in Int /\ GuestIsn \in Int
      BY <1>0, WordSize DEF Numbers
    <3>2. \A x \in Int, m \in Nat \ {0} : x % m \in Nat
      OBVIOUS
    <3> QED
      BY <3>1, <3>2
  <2>2. <<(una - GuestIsn) % Modulus>> \in Seq(Nat)
    BY <2>1
  <2>3. \/ Emit(GuestSegment(una, << >>, TRUE))
        \/ Emit(GuestSegment(una, <<(una - GuestIsn) % Modulus>>, FALSE))
    BY <1>9 DEF GuestRepeat
  <2>4. toProxy' \in Seq(Segments)
    BY <1>0, <1>2, <1>3, <2>2, <2>3
  <2>5. UNCHANGED <<link, toGuest, tasks, proxy, host, guest, snd, una, rcv, guestSent, guestGot,
                    finSeq, syns>>
    BY <1>9 DEF GuestRepeat
  <2> QED
    BY <2>4, <2>5 DEF Types, tasks, proxy, host
<1>10. CASE GuestReset
  <2>1. [Nothing EXCEPT !.rst = TRUE, !.seq = snd] \in Segments
    BY <1>0, GuestSegments DEF IsSegment
  <2>2. toProxy' \in Seq(Segments)
    BY <1>2, <1>10, <2>1 DEF GuestReset
  <2>3. /\ guest' = "reset"
        /\ UNCHANGED <<link, toGuest, tasks, proxy, host, snd, una, rcv, guestSent, guestGot,
                       finSeq, syns>>
    BY <1>10 DEF GuestReset
  <2> QED
    BY <2>2, <2>3 DEF Types, tasks, proxy, host
<1> QED
  BY <1>4, <1>5, <1>6, <1>7, <1>8, <1>9, <1>10 DEF Guest

-----------------------------------------------------------------------------
(***************************************************************************)
(* The properties follow from the invariant, and outlive the link.         *)
(***************************************************************************)
LEMMA LiveIsSafe ==
    ASSUME Types, Flags, Live
    PROVE  Safe
<1>0. /\ guest \in {"closed", "connecting", "open", "reset"} /\ toGuest \in Seq(Segments)
      /\ guestGot \in Seq(Nat) /\ hostGot \in Seq(Nat) /\ host_pending \in Seq(Nat)
      /\ hostSent \in Nat /\ guestSent \in Nat /\ syns \in Nat
      /\ Len(guestGot) \in Nat /\ Len(host_pending) \in Nat
      /\ DOMAIN toGuest = 1 .. Len(toGuest) /\ Len(toGuest) \in Nat
  BY WordSize DEF Types
<1>1. CASE guest \in {"closed", "connecting"}
  <2>1. Opening
    BY <1>1 DEF Live
  <2>2. StreamsInOrder
    <3>1. guestGot = << >> /\ hostGot = << >> /\ ~guestEof
      BY <2>1, Zenon DEF Opening
    <3> QED
      BY <1>0, <3>1 DEF StreamsInOrder, FinComesLast, Counts
  <2>3. OneInFlight
    <3>1. syns = Len(toProxy) + Len(toGuest) + (IF handler = "connecting" THEN 1 ELSE 0)
      BY <2>1 DEF Opening
    <3>2. syns =< 1 => Len(toGuest) =< 1
      BY <1>0, <3>1 DEF Types
    <3>3. syns =< 1 => \A i, j \in DOMAIN toGuest : i = j
      BY <1>0, <3>2
    <3> QED
      BY <1>1, <3>3 DEF OneInFlight
  <2> QED
    BY <2>2, <2>3 DEF Safe
<1>2. CASE guest \in {"open", "reset"}
  <2>1. Upward /\ (syns > 1 => Stuck) /\ (syns =< 1 => Flow)
    BY <1>2 DEF Live, Running
  <2>2. Counts(hostGot) /\ Len(hostGot) =< guestSent
    BY <2>1 DEF Upward, Passed
  <2>3. CASE syns > 1
    <3>1. guestGot = << >> /\ ~guestEof
      BY <2>1, <2>3, Zenon DEF Stuck
    <3>2. StreamsInOrder
      BY <1>0, <2>2, <3>1 DEF StreamsInOrder, FinComesLast, Counts
    <3>3. OneInFlight
      BY <1>0, <2>3 DEF OneInFlight
    <3> QED
      BY <3>2, <3>3 DEF Safe
  <2>4. CASE syns =< 1 /\ Arrived
    <3>1. Counts(guestGot) /\ Len(guestGot) =< hostSent
      BY <1>0, <2>1, <2>4 DEF Flow, Arrived
    <3>2. FinComesLast
      <4>1. guestEof => host_eof /\ host_pending = << >>
        BY <2>4, Zenon DEF Arrived
      <4>2. Len(guestGot) + Len(host_pending) = hostSent
        BY <2>4 DEF Arrived
      <4>3. host_pending = << >> => Len(guestGot) = hostSent
        BY <1>0, <4>2
      <4> QED
        BY <4>1, <4>3, Zenon DEF FinComesLast
    <3>3. OneInFlight
      <4>1. \A i \in DOMAIN toGuest : ~Carries(toGuest[i])
        BY <1>0, <2>4 DEF Arrived
      <4>2. rcv = server_next
        BY <2>4 DEF Arrived
      <4> QED
        BY <4>1, <4>2, Zenon DEF OneInFlight
    <3> QED
      BY <2>2, <3>1, <3>2, <3>3 DEF Safe, StreamsInOrder
  <2>5. CASE syns =< 1 /\ \E c \in 1 .. Len(toGuest) : Flying(c)
    <3>1. PICK c \in 1 .. Len(toGuest) : Flying(c)
      BY <2>5
    <3>2. /\ \A i \in 1 .. Len(toGuest) : Carries(toGuest[i]) <=> i = c
          /\ Len(guestGot) + Len(toGuest[c].data) + Len(host_pending) = hostSent
          /\ ~guestEof /\ server_unacked_end = server_next
      BY <3>1, Zenon DEF Flying
    <3>3. Len(toGuest[c].data) \in Nat
      BY <1>0 DEF Segments
    <3>4. Counts(guestGot) /\ Len(guestGot) =< hostSent
      <4>1. Counts(guestGot)
        BY <2>1, <2>5 DEF Flow
      <4> QED
        BY <1>0, <3>2, <3>3, <4>1
    <3>5. OneInFlight
      <4>1. server_unacked_end # None
        BY <3>2, WordSize DEF Types, Numbers, None
      <4>2. \A i, j \in DOMAIN toGuest : Carries(toGuest[i]) /\ Carries(toGuest[j]) => i = j
        BY <1>0, <3>2
      <4> QED
        BY <4>1, <4>2, Zenon DEF OneInFlight
    <3> QED
      BY <2>2, <3>2, <3>4, <3>5, Zenon DEF Safe, StreamsInOrder, FinComesLast
  <2> QED
    BY <1>0, <2>1, <2>3, <2>4, <2>5 DEF Flow
<1> QED
  BY <1>0, <1>1, <1>2

LEMMA DownStep ==
    ASSUME Types, Flags, ~Up, Safe, [Next]_vars
    PROVE  ~Up' /\ Safe'
<1>0. /\ host_pending \in Seq(Nat) /\ hostSent \in Nat /\ server_next \in Numbers
      /\ host_eof \in BOOLEAN /\ fin_sent \in BOOLEAN /\ HostBytes \in Nat
      /\ guestGot \in Seq(Nat) /\ Len(guestGot) \in Nat /\ guestEof \in BOOLEAN
  BY WordSize DEF Types, Flags
<1>1. ASSUME NEW pending \in Seq(Nat), NEW eof \in BOOLEAN,
             SendHostPending(server_unacked_end, pending, eof)
      PROVE  /\ toGuest' = toGuest
             /\ server_unacked_end' = None => server_unacked_end = None /\ server_next' = server_next
  <2>1. CASE Holds(server_unacked_end, pending, eof)
    BY <2>1, Zenon DEF Holds
  <2>2. CASE EndGoes(server_unacked_end, pending, eof)
    <3>1. Plus(server_next, 1) # None
      BY <1>0, PlusType, WordSize DEF Numbers, None
    <3> QED
      BY <2>2, <3>1, Zenon DEF EndGoes
  <2>3. ASSUME NEW d \in Seq(Nat), ChunkGoes(server_unacked_end, pending, d)
        PROVE  /\ toGuest' = toGuest /\ server_unacked_end' # None
    <3>1. Plus(server_next, Len(d)) # None
      BY <1>0, PlusType, WordSize DEF Numbers, None
    <3> QED
      BY <2>3, <3>1, Zenon DEF ChunkGoes
  <2> QED
    BY <1>1, <2>1, <2>2, <2>3, PendingEffect
<1>2. ASSUME UNCHANGED <<link, toGuest, hostGot, guest, rcv, guestSent, guestGot, guestEof, syns>>,
             server_unacked_end' = None => server_unacked_end = None /\ server_next' = server_next,
             hostSent' \in Nat, hostSent' >= hostSent,
             guestEof => UNCHANGED <<host_eof, host_pending, hostSent>>
      PROVE  ~Up' /\ Safe'
  <2>1. ~Up'
    BY <1>2 DEF Up
  <2>2. Counts(hostGot)' /\ (Len(hostGot) =< guestSent)' /\ Counts(guestGot)'
    BY <1>2 DEF Safe, StreamsInOrder, Counts
  <2>3. (Len(guestGot) =< hostSent)'
    BY <1>0, <1>2 DEF Safe, StreamsInOrder
  <2>4. FinComesLast'
    <3>1. guestEof => host_eof /\ host_pending = << >> /\ Len(guestGot) = hostSent
      BY DEF Safe, StreamsInOrder, FinComesLast
    <3>2. guestEof' = guestEof /\ guestGot' = guestGot
      BY <1>2
    <3>3. guestEof => /\ host_eof' = host_eof /\ host_pending' = host_pending
                      /\ hostSent' = hostSent
      BY <1>2
    <3> QED
      BY <3>1, <3>2, <3>3, Zenon DEF FinComesLast
  <2>5. OneInFlight'
    BY <1>2, Zenon DEF Safe, OneInFlight, Carries
  <2> QED
    BY <2>1, <2>2, <2>3, <2>4, <2>5 DEF Safe, StreamsInOrder
<1>3. guestEof => reader = "done"
  BY DEF Safe, StreamsInOrder, FinComesLast, Flags
<1>4. CASE ReadHost
  <2>1. PICK upto \in hostSent + 1 .. HostBytes :
          /\ hostSent' = upto
          /\ SendHostPending(server_unacked_end, host_pending \o HostStream(hostSent, upto),
                             host_eof)
    BY <1>4 DEF ReadHost
  <2>2. UNCHANGED <<link, hostGot, peer>> /\ reader = "reading"
    BY <1>4 DEF ReadHost
  <2>3. HostStream(hostSent, upto) \in Seq(Nat)
    BY <1>0 DEF HostStream
  <2>4. host_pending \o HostStream(hostSent, upto) \in Seq(Nat)
    BY <1>0, <2>3, ConcatProperties
  <2>5. /\ toGuest' = toGuest
        /\ server_unacked_end' = None => server_unacked_end = None /\ server_next' = server_next
    BY <1>0, <1>1, <2>1, <2>4
  <2>6. ~guestEof
    BY <1>3, <2>2
  <2>7. hostSent' \in Nat /\ hostSent' >= hostSent
    BY <1>0, <2>1
  <2> QED
    BY <1>2, <2>2, <2>5, <2>6, <2>7 DEF peer
<1>5. CASE ReadEof
  <2>1. /\ reader = "reading" /\ SendHostPending(server_unacked_end, host_pending, TRUE)
        /\ UNCHANGED <<link, host, peer>>
    BY <1>5 DEF ReadEof
  <2>2. /\ toGuest' = toGuest
        /\ server_unacked_end' = None => server_unacked_end = None /\ server_next' = server_next
    BY <1>0, <1>1, <2>1
  <2>3. ~guestEof
    BY <1>3, <2>1
  <2> QED
    BY <1>0, <1>2, <2>1, <2>2, <2>3 DEF peer, host
<1>6. CASE UNCHANGED vars
  BY <1>0, <1>2, <1>6 DEF vars, proxy, host, peer
<1> QED
  BY <1>4, <1>5, <1>6 DEF Next, FrameTask, ReadTask, Guest, HandleRst, HandleSyn, ConnectHost,
     ConnectFails, DrainFails, HandleAck, HandleData, AckData, HandleFin, CloseHost, Disconnect,
     Ready, Ordinary, GuestConnect, GuestReceive, GuestSend, GuestFin, GuestFinWithData, GuestRepeat,
     GuestReset

-----------------------------------------------------------------------------
(***************************************************************************)
(* Until the guest has its connection.                                     *)
(***************************************************************************)
LEMMA OpeningTypes ==
    ASSUME Types, Opening
    PROVE  /\ Len(toProxy) \in Nat /\ Len(toGuest) \in Nat /\ syns \in Nat
           /\ Len(toProxy) + Len(toGuest) =< syns /\ syns =< MaxSyns
           /\ handler = "connecting" => Len(toProxy) + Len(toGuest) < syns
           /\ handler # "connecting" => Len(toProxy) + Len(toGuest) = syns
           /\ toGuest = << >> <=> Len(toGuest) = 0
           /\ toProxy = << >> <=> Len(toProxy) = 0
           /\ \A n \in 0 .. MaxSyns : n \in Numbers
<1>1. /\ toProxy \in Seq(Segments) /\ toGuest \in Seq(Segments) /\ syns \in 0 .. MaxSyns
      /\ MaxSyns \in Nat /\ 2 * MaxSyns < Modulus /\ Modulus \in Nat
  BY WordSize DEF Types
<1>2. syns = Len(toProxy) + Len(toGuest) + (IF handler = "connecting" THEN 1 ELSE 0)
  BY DEF Opening
<1>3. \A n \in 0 .. MaxSyns : n \in Numbers
  BY <1>1 DEF Numbers
<1> QED
  BY <1>1, <1>2, <1>3

\* The answer to a SYN.
LEMMA OpeningAnswer ==
    ASSUME Types, Opening, Up, Len(toGuest) < MaxSyns, guest_next' = Plus(GuestIsn, 1), SynAck
    PROVE  /\ Len(toGuest') = Len(toGuest) + 1 /\ toGuest' # << >>
           /\ \A i \in 1 .. Len(toGuest') : Answers(toGuest'[i], i)
           /\ host_pending' = host_pending
           /\ server_next' = Plus(ServerIsn, Len(toGuest'))
           /\ server_unacked_end' = server_next'
<1> DEFINE x == Sent(TRUE, FALSE, << >>, guest_next')
           n == Len(toGuest)
<1>1. /\ toGuest \in Seq(Segments) /\ server_next \in Numbers /\ GuestIsn \in Numbers
      /\ ServerIsn \in Numbers /\ << >> \in Seq(Nat) /\ guest_next' \in Numbers /\ n \in Nat
      /\ n \in Numbers /\ 1 \in Numbers /\ n + 1 \in Numbers
  <2>1. << >> \in Seq(Nat)
    OBVIOUS
  <2>2. guest_next' \in Numbers
    BY WordSize, PlusType
  <2>3. n \in Nat /\ n \in 0 .. MaxSyns /\ 1 \in 0 .. MaxSyns /\ n + 1 \in 0 .. MaxSyns
    BY OpeningTypes, WordSize
  <2> QED
    BY <2>1, <2>2, <2>3, OpeningTypes, WordSize DEF Types
<1>2. /\ toGuest' = Append(toGuest, x) /\ host_pending' = host_pending
      /\ server_next' = Plus(server_next, 1) /\ server_unacked_end' = server_next'
  <2> DEFINE m == Len(<< >>) + (IF TRUE THEN 1 ELSE 0) + (IF FALSE THEN 1 ELSE 0)
  <2>1. /\ toGuest' = IF Up THEN Append(toGuest, x) ELSE toGuest
        /\ host_pending' = host_pending
        /\ server_next' = Plus(server_next, m) /\ server_unacked_end' = server_next'
    BY <1>1, SendTcpEffect DEF SynAck
  <2>2. m = 1
    OBVIOUS
  <2> QED
    BY <2>1, <2>2
<1>3. IsSegment(x, TRUE, FALSE, FALSE, server_next, guest_next', << >>)
  BY <1>1, SentSegment
<1> HIDE DEF x
<1>4. server_next = Plus(ServerIsn, n)
  BY DEF Opening
<1>5. server_next' = Plus(ServerIsn, n + 1)
  BY <1>1, <1>2, <1>4, PlusPlus
<1>6. Answers(x, n + 1)
  <2>1. n + 1 - 1 = n
    BY <1>1
  <2> QED
    BY <1>3, <1>4, <2>1 DEF Answers, IsSegment
<1>7. /\ Len(toGuest') = n + 1 /\ toGuest'[n + 1] = x
      /\ \A i \in 1 .. n : toGuest'[i] = toGuest[i]
  BY <1>1, <1>2, <1>3, AppendOf DEF IsSegment
<1>8. \A i \in 1 .. n : Answers(toGuest[i], i)
  BY DEF Opening
<1>9. \A i \in 1 .. Len(toGuest') : Answers(toGuest'[i], i)
  <2> HIDE DEF n
  <2>1. \A i \in 1 .. n + 1 : i \in 1 .. n \/ i = n + 1
    BY <1>1
  <2> QED
    BY <1>6, <1>7, <1>8, <2>1, Zenon
<1>10. toGuest' # << >>
  BY <1>1, <1>7
<1> QED
  BY <1>2, <1>5, <1>7, <1>9, <1>10

LEMMA OpeningSyn ==
    ASSUME Types, Opening, HandleSyn
    PROVE  Opening'
<1>1. /\ Up /\ handler = "idle" /\ toProxy # << >> /\ Takes
      /\ guest_next' = Plus(Segment.seq, 1)
      /\ UNCHANGED <<link, frame, reader, host_writer, guest_pending, host_eof, fin_sent, host, peer>>
  BY DEF HandleSyn, Ready
<1>2. /\ Segment = toProxy[1] /\ Len(toProxy) \in Nat /\ Len(toProxy) > 0
      /\ Len(toProxy') = Len(toProxy) - 1
      /\ \A i \in 1 .. Len(toProxy') : toProxy'[i] = toProxy[i + 1] /\ i + 1 \in 1 .. Len(toProxy)
  BY <1>1, Taken DEF Types
<1>3. guest_next' = Plus(GuestIsn, 1)
  <2>1. Asks(Segment)
    BY <1>2 DEF Opening
  <2> QED
    BY <1>1, <2>1 DEF Asks
<1>4. \A i \in 1 .. Len(toProxy') : Asks(toProxy'[i])
  BY <1>2 DEF Opening
<1>5. /\ syns = Len(toProxy) + Len(toGuest) /\ Len(toGuest) \in Nat /\ Len(toGuest) < MaxSyns
  BY <1>1, <1>2, OpeningTypes, WordSize
<1>6. /\ guestGot' = << >> /\ hostGot' = << >> /\ guest_pending' = << >>
      /\ guestSent' = 0 /\ finSeq' = None
      /\ guest' = "closed" => syns' = 0
      /\ syns' > 0 => snd' = Plus(GuestIsn, 1)
      /\ hostSent' = hostSent /\ syns' = syns
  BY <1>1 DEF Opening, host, peer
<1>7. ~guestEof' /\ ~fin_sent'
  BY <1>1, Zenon DEF Opening, peer
<1>8. /\ reader' = reader /\ host_writer' = host_writer
  BY <1>1
<1>9. CASE host_writer = "none"
  <2>1. /\ handler' = "connecting"
        /\ UNCHANGED <<toGuest, host_pending, server_next, server_unacked_end>>
    BY <1>9 DEF HandleSyn
  <2>2. syns' = Len(toProxy') + Len(toGuest') + (IF handler' = "connecting" THEN 1 ELSE 0)
    BY <1>2, <1>5, <1>6, <2>1
  <2>3. /\ \A i \in 1 .. Len(toGuest') : Answers(toGuest'[i], i)
        /\ server_next' = Plus(ServerIsn, Len(toGuest'))
        /\ server_unacked_end' = IF toGuest' = << >> THEN None ELSE server_next'
        /\ host_writer' = IF toGuest' = << >> THEN "none" ELSE "open"
        /\ reader' = "none" <=> host_writer' = "none"
        /\ Len(host_pending') = hostSent'
        /\ Continues(host_pending', 0)
    BY <1>6, <1>8, <2>1 DEF Opening
  <2> QED
    BY <1>3, <1>4, <1>6, <1>7, <1>8, <1>9, <2>1, <2>2, <2>3, Zenon DEF Opening
<1>10. CASE host_writer # "none"
  <2>1. SynAck /\ handler' = handler
    BY <1>10 DEF HandleSyn
  <2>2. /\ Len(toGuest') = Len(toGuest) + 1 /\ toGuest' # << >>
        /\ \A i \in 1 .. Len(toGuest') : Answers(toGuest'[i], i)
        /\ host_pending' = host_pending
        /\ server_next' = Plus(ServerIsn, Len(toGuest'))
        /\ server_unacked_end' = server_next'
    BY <1>1, <1>3, <1>5, <2>1, OpeningAnswer
  <2>3. syns' = Len(toProxy') + Len(toGuest') + (IF handler' = "connecting" THEN 1 ELSE 0)
    BY <1>1, <1>2, <1>5, <1>6, <2>1, <2>2
  <2>4. /\ host_writer = "open" /\ reader # "none"
        /\ Len(host_pending') = hostSent'
        /\ Continues(host_pending', 0)
    BY <1>6, <1>10, <2>2 DEF Opening
  <2> QED
    BY <1>1, <1>3, <1>4, <1>6, <1>7, <1>8, <1>10, <2>1, <2>2, <2>3, <2>4, Zenon DEF Opening
<1> QED
  BY <1>9, <1>10

LEMMA OpeningConnected ==
    ASSUME Types, Opening, ConnectHost
    PROVE  Opening'
<1>1. /\ Up /\ handler = "connecting" /\ handler' = "idle" /\ host_writer' = "open"
      /\ reader' = "reading" /\ hostGot' = hostGot \o guest_pending /\ guest_pending' = << >>
      /\ guest_next' = guest_next /\ SynAck
      /\ UNCHANGED <<link, toProxy, frame, host_eof, fin_sent, hostSent, peer>>
  BY DEF ConnectHost
<1>2. guest_next' = Plus(GuestIsn, 1) /\ hostGot' = << >>
  BY <1>1 DEF Opening
<1>3. /\ Len(toProxy) \in Nat /\ Len(toGuest) \in Nat /\ Len(toGuest) < MaxSyns /\ syns \in Nat
      /\ syns = Len(toProxy) + Len(toGuest) + 1
  <2>1. syns = Len(toProxy) + Len(toGuest) + (IF handler = "connecting" THEN 1 ELSE 0)
    BY DEF Opening
  <2> QED
    BY <1>1, <2>1, OpeningTypes, WordSize
<1>4. /\ Len(toGuest') = Len(toGuest) + 1 /\ toGuest' # << >>
      /\ \A i \in 1 .. Len(toGuest') : Answers(toGuest'[i], i)
      /\ host_pending' = host_pending
      /\ server_next' = Plus(ServerIsn, Len(toGuest'))
      /\ server_unacked_end' = server_next'
  BY <1>1, <1>2, <1>3, OpeningAnswer
<1>5. syns' = Len(toProxy') + Len(toGuest') + (IF handler' = "connecting" THEN 1 ELSE 0)
  BY <1>1, <1>3, <1>4 DEF peer
<1>6. /\ guestGot' = << >> /\ guestSent' = 0 /\ finSeq' = None
      /\ guest' = "closed" => syns' = 0
      /\ syns' > 0 => snd' = Plus(GuestIsn, 1)
      /\ \A i \in 1 .. Len(toProxy') : Asks(toProxy'[i])
      /\ Len(host_pending') = hostSent'
      /\ Continues(host_pending', 0)
  BY <1>1, <1>4 DEF Opening, peer
<1>7. ~guestEof' /\ ~fin_sent'
  BY <1>1, Zenon DEF Opening, peer
<1> QED
  BY <1>1, <1>2, <1>4, <1>5, <1>6, <1>7, Zenon DEF Opening

\* The reader waits until the guest has acknowledged the answer to its SYN.
LEMMA OpeningRead ==
    ASSUME Types, host_eof \in BOOLEAN, Opening, ReadTask
    PROVE  Opening'
<1>1. reader = "reading" /\ toGuest # << >> /\ server_unacked_end = server_next
  BY DEF ReadTask, ReadHost, ReadEof, Opening
<1>2. server_unacked_end # None
  BY <1>1, WordSize DEF Types, Numbers, None
<1>3. ASSUME NEW pending \in Seq(Nat), NEW eof \in BOOLEAN,
             SendHostPending(server_unacked_end, pending, eof)
      PROVE  /\ host_pending' = pending
             /\ UNCHANGED <<toGuest, server_next, server_unacked_end, fin_sent>>
  <2>1. ~EndGoes(server_unacked_end, pending, eof)
    BY <1>2, Zenon DEF EndGoes
  <2>2. \A d \in Seq(Nat) : ~ChunkGoes(server_unacked_end, pending, d)
    BY <1>2, Zenon DEF ChunkGoes
  <2>3. Holds(server_unacked_end, pending, eof)
    BY <1>3, <2>1, <2>2, PendingEffect
  <2> QED
    BY <2>3, Zenon DEF Holds
<1>4. /\ host_pending \in Seq(Nat) /\ Len(host_pending) \in Nat /\ hostSent = Len(host_pending)
      /\ HostBytes \in Nat
      /\ Continues(host_pending, 0)
  BY WordSize DEF Types, Opening
<1>5. ASSUME reader' # "none", Len(host_pending') = hostSent',
             Continues(host_pending', 0),
             UNCHANGED <<toGuest, server_next, server_unacked_end, fin_sent>>,
             UNCHANGED <<link, toProxy, handler, frame, host_writer, guest_pending, guest_next,
                         hostGot, peer>>
      PROVE  Opening'
  <2>1. ~guestEof' /\ ~fin_sent'
    BY <1>5, Zenon DEF Opening, peer
  <2>2. host_writer # "none"
    BY <1>1 DEF Opening
  <2> DEFINE Same == /\ toGuest' = toGuest /\ server_next' = server_next
                     /\ server_unacked_end' = server_unacked_end /\ toProxy' = toProxy
                     /\ handler' = handler /\ host_writer' = host_writer
                     /\ guest_pending' = guest_pending /\ guest_next' = guest_next
                     /\ hostGot' = hostGot /\ guest' = guest /\ snd' = snd
                     /\ guestSent' = guestSent /\ guestGot' = guestGot /\ finSeq' = finSeq
                     /\ syns' = syns
  <2>3. Same
    BY <1>5 DEF peer
  <2> QED
    BY <1>5, <2>1, <2>2, <2>3, Zenon DEF Opening
<1>6. CASE ReadHost
  <2>1. PICK upto \in hostSent + 1 .. HostBytes :
          /\ hostSent' = upto
          /\ SendHostPending(server_unacked_end, host_pending \o HostStream(hostSent, upto),
                             host_eof)
    BY <1>6 DEF ReadHost
  <2> DEFINE p == host_pending \o HostStream(hostSent, upto)
  <2>3. p \in Seq(Nat) /\ Len(p) = upto /\ Continues(p, 0)
    BY <1>4, ReadAppends
  <2> HIDE DEF p
  <2>5. /\ host_pending' = p
        /\ UNCHANGED <<toGuest, server_next, server_unacked_end, fin_sent>>
    BY <1>3, <2>1, <2>3 DEF p
  <2>6. /\ reader' # "none"
        /\ UNCHANGED <<link, toProxy, handler, frame, host_writer, guest_pending, guest_next,
                       hostGot, peer>>
    BY <1>1, <1>6 DEF ReadHost, tasks
  <2> QED
    BY <1>5, <2>1, <2>3, <2>5, <2>6
<1>7. CASE ReadEof
  <2>1. /\ reader' = "done" /\ SendHostPending(server_unacked_end, host_pending, TRUE)
        /\ UNCHANGED <<link, toProxy, handler, frame, host_writer, guest_pending, guest_next, host,
                       peer>>
    BY <1>7 DEF ReadEof
  <2>2. /\ host_pending' = host_pending
        /\ UNCHANGED <<toGuest, server_next, server_unacked_end, fin_sent>>
    BY <1>3, <1>4, <2>1
  <2>3. Len(host_pending') = hostSent' /\ Continues(host_pending', 0)
    BY <1>4, <2>1, <2>2 DEF host
  <2> QED
    BY <1>5, <2>1, <2>2, <2>3 DEF host
<1> QED
  BY <1>6, <1>7 DEF ReadTask

LEMMA OpeningAsk ==
    ASSUME Types, Opening, GuestConnect
    PROVE  Opening'
<1> DEFINE x == [Nothing EXCEPT !.syn = TRUE, !.seq = GuestIsn]
<1>1. /\ guest' = "connecting" /\ syns' = syns + 1 /\ snd' = Plus(GuestIsn, 1) /\ Emit(x)
      /\ UNCHANGED <<link, toGuest, tasks, proxy, host, rcv, guestSent, guestGot, guestEof, finSeq>>
  BY DEF GuestConnect
<1>2. IsSegment(x, TRUE, FALSE, FALSE, GuestIsn, 0, << >>)
  <2>1. << >> \in Seq(Nat) /\ GuestIsn \in Numbers
    BY WordSize
  <2> QED
    BY <2>1, GuestSegments
<1> HIDE DEF x
<1>3. Asks(x)
  BY <1>2 DEF Asks, IsSegment
<1>4. /\ Len(toProxy) \in Nat /\ Len(toProxy') = Len(toProxy) + 1 /\ toProxy'[Len(toProxy) + 1] = x
      /\ \A i \in 1 .. Len(toProxy) : toProxy'[i] = toProxy[i]
  BY <1>1, <1>2, Emitted DEF IsSegment, Types
<1>5. \A i \in 1 .. Len(toProxy') : Asks(toProxy'[i])
  BY <1>3, <1>4 DEF Opening
<1>6. syns' = Len(toProxy') + Len(toGuest') + (IF handler' = "connecting" THEN 1 ELSE 0)
  <2>1. syns = Len(toProxy) + Len(toGuest) + (IF handler = "connecting" THEN 1 ELSE 0)
    BY DEF Opening
  <2>2. Len(toGuest) \in Nat /\ toGuest' = toGuest /\ handler' = handler
    BY <1>1, OpeningTypes DEF tasks
  <2> QED
    BY <1>1, <1>4, <2>1, <2>2
<1>7. ~guestEof' /\ ~fin_sent'
  BY <1>1, Zenon DEF Opening, proxy
<1> DEFINE Same == /\ toGuest' = toGuest /\ server_next' = server_next
                   /\ server_unacked_end' = server_unacked_end /\ handler' = handler
                   /\ host_writer' = host_writer /\ reader' = reader
                   /\ guest_pending' = guest_pending /\ guest_next' = guest_next
                   /\ hostGot' = hostGot /\ hostSent' = hostSent /\ host_pending' = host_pending
                   /\ guestSent' = guestSent /\ guestGot' = guestGot /\ finSeq' = finSeq
<1>8. Same
  BY <1>1 DEF tasks, proxy, host
<1> QED
  BY <1>1, <1>5, <1>6, <1>7, <1>8, Zenon DEF Opening

\* The guest takes the first answer to its SYN, and has its connection.
LEMMA Opens ==
    ASSUME Types, Opening, guest \in {"closed", "connecting"}, GuestReceive
    PROVE  guest' = "open" /\ Running'
<1> DEFINE s == Head(toGuest)
           x == [Nothing EXCEPT !.seq = snd, !.ack = rcv']
<1>1. Up /\ toGuest # << >> /\ toGuest' = Tail(toGuest)
  BY DEF GuestReceive
<1>2. /\ s = toGuest[1] /\ Len(toGuest) \in Nat /\ Len(toGuest) > 0
      /\ Len(toGuest') = Len(toGuest) - 1
      /\ \A i \in 1 .. Len(toGuest') : toGuest'[i] = toGuest[i + 1] /\ i + 1 \in 1 .. Len(toGuest)
  BY <1>1, Received DEF Types
<1>3. /\ syns \in Nat /\ syns > 0 /\ syns =< MaxSyns /\ Len(toProxy) \in Nat
      /\ Len(toProxy) + Len(toGuest) =< syns
      /\ handler = "idle" => Len(toProxy) + Len(toGuest) = syns
  BY <1>2, OpeningTypes
<1>4. guest = "connecting"
  BY <1>3 DEF Opening
<1>5. /\ s.syn /\ ~s.fin /\ s.data = << >> /\ s.ack = Plus(GuestIsn, 1)
      /\ s.seq = Plus(ServerIsn, 1 - 1)
  <2>1. Answers(toGuest[1], 1)
    BY <1>2 DEF Opening
  <2> QED
    BY <1>2, <2>1, Zenon DEF Answers
<1>6. /\ guest' = "open" /\ una' = s.ack /\ rcv' = Plus(s.seq, 1)
      /\ guestGot' = guestGot
      /\ Emit(x)
      /\ UNCHANGED <<link, tasks, proxy, host, snd, guestSent, finSeq, syns, repeats>>
  BY <1>4, <1>5 DEF GuestReceive, Carries
<1>7. ~guestEof'
  <2>1. ~guestEof
    BY Zenon DEF Opening
  <2>2. guestEof' = (guestEof \/ ((guest # "connecting" /\ ~s.syn /\ s.seq = rcv) /\ s.fin))
    BY Zenon DEF GuestReceive
  <2> QED
    BY <1>5, <2>1, <2>2, Zenon
<1>8. rcv' = Plus(ServerIsn, 1) /\ rcv' \in Numbers /\ snd \in Numbers /\ ServerIsn \in Numbers
  <2>1. ServerIsn \in Numbers /\ snd \in Numbers
    BY WordSize DEF Types
  <2>2. s.seq = ServerIsn
    BY <1>5, <2>1, PlusZero
  <2> QED
    BY <1>6, <2>1, <2>2, PlusType
<1>9. IsSegment(x, FALSE, FALSE, FALSE, snd, rcv', << >>)
  <2>1. << >> \in Seq(Nat)
    OBVIOUS
  <2> QED
    BY <1>8, <2>1, GuestSegments
<1> HIDE DEF s, x
<1>10. /\ Len(toProxy') = Len(toProxy) + 1 /\ toProxy'[Len(toProxy) + 1] = x
       /\ \A i \in 1 .. Len(toProxy) : toProxy'[i] = toProxy[i]
  BY <1>6, <1>9, Emitted DEF Types, IsSegment
<1>11. \A i \in 1 .. Len(toProxy') : i \in 1 .. Len(toProxy) \/ i = Len(toProxy) + 1
  BY <1>3, <1>10
<1>12. \A i \in 1 .. Len(toProxy) : Asks(toProxy'[i])
  BY <1>10 DEF Opening
<1>13. \A i \in 1 .. Len(toGuest') : Answers(toGuest'[i], i + 1)
  BY <1>2 DEF Opening
<1>14. /\ handler = "idle" /\ host_writer = "open" /\ reader # "none"
       /\ guest_next = Plus(GuestIsn, 1) /\ server_unacked_end = server_next
  BY <1>1 DEF Opening
<1>15. /\ handler' = "idle" /\ host_writer' = "open" /\ reader' # "none"
       /\ guest_next' = Plus(GuestIsn, 1) /\ server_next' = server_next
       /\ server_unacked_end' = server_next'
       /\ guestSent' = 0 /\ finSeq' = None /\ hostGot' = << >> /\ guest_pending' = << >>
       /\ guestGot' = << >> /\ snd' = Plus(GuestIsn, 1)
       /\ host_pending' = host_pending /\ hostSent' = hostSent /\ syns' = syns
  BY <1>3, <1>6, <1>14 DEF tasks, proxy, host, Opening
<1>16. Upward'
  <2>1. Spent' = 1
    BY <1>15 DEF Spent
  <2>2. \A i \in 1 .. Len(toProxy') : Plain(toProxy'[i]) => Spoken(toProxy'[i], guestSent', finSeq')
    <3>1. Spoken(x, guestSent', finSeq')
      BY <1>9, Zenon DEF Spoken, IsSegment
    <3>2. \A i \in 1 .. Len(toProxy) : ~Plain(toProxy'[i])
      BY <1>12, Zenon DEF Plain, Asks
    <3> QED
      BY <1>10, <1>11, <3>1, <3>2, Zenon
  <2>3. Reached(Plus(GuestIsn, 1), Spent')
    BY <2>1 DEF Reached
  <2>4. Reached(una', Spent')
    BY <1>5, <1>6, <2>3
  <2>5. \A i \in 1 .. Len(toGuest') : Reached(toGuest'[i].ack, Spent')
    BY <1>13, <2>3 DEF Answers
  <2>6. Counts(hostGot)' /\ (Len(hostGot) =< guestSent)'
    BY <1>15 DEF Counts
  <2>7. \E g \in 1 .. Spent' : /\ guest_next' = Plus(GuestIsn, g)
                               /\ host_writer' = "open" => g = Len(hostGot') + 1 \/ g = guestSent' + 2
    BY <1>15, <2>1
  <2> QED
    BY <1>15, <2>1, <2>2, <2>4, <2>5, <2>6, <2>7, Zenon DEF Upward, Said, Handling, Passed
<1>17. SynsFirst'
  <2> DEFINE a == Len(toProxy)
  <2>1. a \in 0 .. Len(toProxy') /\ a < syns' /\ syns' - a = Len(toGuest)
    BY <1>2, <1>3, <1>10, <1>14, <1>15
  <2>2. \A i \in 1 .. Len(toProxy') : toProxy'[i].syn <=> i =< a
    <3>1. \A i \in 1 .. Len(toProxy) : toProxy'[i].syn
      BY <1>12, Zenon DEF Asks
    <3>2. ~x.syn
      BY <1>9 DEF IsSegment
    <3> QED
      BY <1>3, <1>10, <1>11, <3>1, <3>2
  <2>3. \A i \in 1 .. Len(toProxy') : toProxy'[i].syn => Asks(toProxy'[i])
    BY <1>3, <1>11, <1>12, <2>2
  <2>4. server_next' = Plus(ServerIsn, syns' - a)
    BY <1>15, <2>1 DEF Opening
  <2> QED
    BY <1>15, <2>1, <2>2, <2>3, <2>4, Zenon DEF SynsFirst
<1>18. \A i \in 1 .. Len(toProxy') : Plain(toProxy'[i]) => toProxy'[i].ack = rcv' /\ i = Len(toProxy')
  <2>1. x.ack = rcv'
    BY <1>9 DEF IsSegment
  <2>2. \A i \in 1 .. Len(toProxy) : ~Plain(toProxy'[i])
    BY <1>12, Zenon DEF Plain, Asks
  <2> QED
    BY <1>10, <1>11, <2>1, <2>2
<1>19. ~fin_sent'
  <2>1. ~fin_sent /\ fin_sent' = fin_sent
    BY <1>6, Zenon DEF Opening, proxy
  <2> QED
    BY <2>1
<1>20. syns' > 1 => Stuck'
  <2>1. \A i \in 1 .. Len(toGuest') : ~toGuest'[i].fin /\ toGuest'[i].data = << >>
    BY <1>13, Zenon DEF Answers
  <2> QED
    BY <1>7, <1>8, <1>15, <1>18, <1>19, <2>1, Zenon DEF Stuck
<1>21. syns' =< 1 => Flow'
  <2> SUFFICES ASSUME syns' =< 1 PROVE Flow'
    OBVIOUS
  <2>1. Len(toGuest) = 1 /\ Len(toGuest') = 0 /\ syns' \in Nat /\ Len(toProxy) = 0
    BY <1>2, <1>3, <1>15
  <2>2. rcv' = server_next' /\ rcv' \in Numbers
    BY <1>8, <1>15, <2>1 DEF Opening
  <2>3. \A i \in 1 .. Len(toGuest') : FALSE
    BY <2>1
  <2>4. Acks'
    <3>1. server_next' = Plus(rcv', 0) /\ 0 \in 0 .. ChunkSize
      BY <2>2, PlusZero, WordSize
    <3> QED
      BY <1>18, <2>2, <3>1 DEF Acks
  <2>5. Arrived'
    <3>1. Len(guestGot') + Len(host_pending') = hostSent' /\ Continues(host_pending, Len(guestGot))'
      <4>1. Len(guestGot') = 0 /\ Len(host_pending) \in Nat
        BY <1>15 DEF Types
      <4>2. Len(host_pending) = hostSent /\ Continues(host_pending, 0)
        BY DEF Opening
      <4> QED
        BY <1>15, <4>1, <4>2
    <3> QED
      BY <1>7, <1>15, <1>18, <1>19, <2>2, <2>3, <3>1, Zenon DEF Arrived
  <2>6. Counts(guestGot)'
    BY <1>15 DEF Counts
  <2> QED
    BY <2>3, <2>4, <2>5, <2>6, Zenon DEF Flow
<1> QED
  BY <1>6, <1>16, <1>17, <1>20, <1>21 DEF Running

LEMMA OpeningStep ==
    ASSUME Types, Flags, guest \in {"closed", "connecting"}, Opening, [Next]_vars, Up'
    PROVE  Live'
<1>1. ASSUME Ready, Takes PROVE Segment.syn /\ ~Segment.rst
  <2>1. Segment = toProxy[1] /\ Len(toProxy) \in Nat /\ Len(toProxy) > 0
    BY <1>1, Taken DEF Types, Ready
  <2>2. Asks(Segment)
    BY <2>1 DEF Opening
  <2> QED
    BY <2>2 DEF Asks
<1>2. handler \in {"idle", "connecting"}
  BY DEF Opening
<1>3. ASSUME Opening', UNCHANGED guest PROVE Live'
  BY <1>3 DEF Live
<1>4. CASE HandleSyn
  BY <1>3, <1>4, OpeningSyn DEF HandleSyn, peer
<1>5. CASE ConnectHost
  BY <1>3, <1>5, OpeningConnected DEF ConnectHost, peer
<1>6. CASE ReadTask
  <2>1. Opening'
    BY <1>6, OpeningRead DEF Flags
  <2>2. guest' = guest
    BY <1>6 DEF ReadTask, ReadHost, ReadEof, peer
  <2> QED
    BY <1>3, <2>1, <2>2
<1>7. CASE GuestConnect
  <2>1. Opening' /\ guest' = "connecting"
    BY <1>7, OpeningAsk DEF GuestConnect
  <2> QED
    BY <2>1 DEF Live
<1>8. CASE GuestReceive
  BY <1>8, Opens DEF Live
<1>9. CASE UNCHANGED vars
  <2> DEFINE Same == /\ toGuest' = toGuest /\ server_next' = server_next /\ toProxy' = toProxy
                     /\ server_unacked_end' = server_unacked_end /\ handler' = handler
                     /\ host_writer' = host_writer /\ reader' = reader
                     /\ guest_pending' = guest_pending /\ guest_next' = guest_next
                     /\ hostGot' = hostGot /\ hostSent' = hostSent /\ host_pending' = host_pending
                     /\ guestSent' = guestSent /\ guestGot' = guestGot /\ finSeq' = finSeq
                     /\ guest' = guest /\ syns' = syns /\ snd' = snd
  <2>1. Same
    BY <1>9 DEF vars, tasks, proxy, host, peer
  <2>2. guestEof' = guestEof /\ fin_sent' = fin_sent
    BY <1>9, Zenon DEF vars, proxy, peer
  <2>3. Opening'
    BY <2>1, <2>2, Zenon DEF Opening
  <2> QED
    BY <1>3, <2>1, <2>3
<1>10. ~HandleRst /\ ~HandleAck
  BY <1>1 DEF HandleRst, HandleAck, Ordinary
<1>11. ~HandleData
  BY <1>1, <1>2 DEF HandleData, Ordinary
<1>12. ~AckData /\ ~HandleFin /\ ~CloseHost
  BY <1>2 DEF AckData, HandleFin, CloseHost
<1>13. ~ConnectFails /\ ~DrainFails /\ ~Disconnect
  BY DEF ConnectFails, DrainFails, DrainRaises, Disconnect, Up
<1>14. ~GuestSend /\ ~GuestFin /\ ~GuestFinWithData /\ ~GuestRepeat /\ ~GuestReset
  BY DEF GuestSend, GuestFin, GuestFinWithData, GuestRepeat, GuestReset
<1> QED
  BY <1>4, <1>5, <1>6, <1>7, <1>8, <1>9, <1>10, <1>11, <1>12, <1>13, <1>14
  DEF Next, FrameTask, Guest

-----------------------------------------------------------------------------
(***************************************************************************)
(* The connection of the guest: what the steps do to the two queues.       *)
(***************************************************************************)

\* The segment x has been sent to the guest.
Grows(x) ==
    /\ Len(toGuest) \in Nat /\ Len(toGuest') = Len(toGuest) + 1
    /\ toGuest'[Len(toGuest) + 1] = x
    /\ \A i \in 1 .. Len(toGuest) : toGuest'[i] = toGuest[i]

LEMMA BareAck ==
    ASSUME Types, Up, NEW next \in Numbers, SendAck(next)
    PROVE  /\ \E x : Grows(x) /\ IsSegment(x, FALSE, FALSE, FALSE, server_next, next, << >>)
           /\ UNCHANGED <<host_pending, server_next, server_unacked_end>>
<1> DEFINE x == Sent(FALSE, FALSE, << >>, next)
<1>1. << >> \in Seq(Nat) /\ server_next \in Numbers /\ toGuest \in Seq(Segments)
  <2>1. << >> \in Seq(Nat)
    OBVIOUS
  <2> QED
    BY <2>1 DEF Types
<1>2. IsSegment(x, FALSE, FALSE, FALSE, server_next, next, << >>)
  BY <1>1, SentSegment
<1>3. /\ toGuest' = Append(toGuest, x)
      /\ UNCHANGED <<host_pending, server_next, server_unacked_end>>
  BY <1>1, SendTcpEffect DEF SendAck
<1> HIDE DEF x
<1>4. Grows(x)
  BY <1>1, <1>2, <1>3, AppendOf DEF Grows, IsSegment
<1> QED
  BY <1>2, <1>3, <1>4

LEMMA SynAckEffect ==
    ASSUME Types, Up, guest_next' \in Numbers, SynAck
    PROVE  /\ \E x : Grows(x) /\ IsSegment(x, TRUE, FALSE, FALSE, server_next, guest_next', << >>)
           /\ host_pending' = host_pending /\ server_next' = Plus(server_next, 1)
           /\ server_unacked_end' = server_next'
<1> DEFINE x == Sent(TRUE, FALSE, << >>, guest_next')
           m == Len(<< >>) + (IF TRUE THEN 1 ELSE 0) + (IF FALSE THEN 1 ELSE 0)
<1>1. << >> \in Seq(Nat) /\ server_next \in Numbers /\ toGuest \in Seq(Segments)
  <2>1. << >> \in Seq(Nat)
    OBVIOUS
  <2> QED
    BY <2>1 DEF Types
<1>2. IsSegment(x, TRUE, FALSE, FALSE, server_next, guest_next', << >>)
  BY <1>1, SentSegment
<1>3. /\ toGuest' = IF Up THEN Append(toGuest, x) ELSE toGuest
      /\ host_pending' = host_pending
      /\ server_next' = Plus(server_next, m) /\ server_unacked_end' = server_next'
  BY <1>1, SendTcpEffect DEF SynAck
<1>4. m = 1
  OBVIOUS
<1> HIDE DEF x, m
<1>5. Grows(x)
  BY <1>1, <1>2, <1>3, AppendOf DEF Grows, IsSegment
<1> QED
  BY <1>2, <1>3, <1>4, <1>5

\* The part of send_host_pending that the guest sees: the segment, if one goes out.
LEMMA PendingGrows ==
    ASSUME Types, Up, NEW unacked, NEW pending \in Seq(Nat), NEW eof \in BOOLEAN,
           SendHostPending(unacked, pending, eof)
    PROVE  \/ Holds(unacked, pending, eof)
           \/ EndGoes(unacked, pending, eof) /\
                \E x : Grows(x) /\ IsSegment(x, FALSE, TRUE, FALSE, server_next, guest_next, << >>)
           \/ \E d \in Seq(Nat) : ChunkGoes(unacked, pending, d) /\
                \E x : Grows(x) /\ IsSegment(x, FALSE, FALSE, FALSE, server_next, guest_next, d)
<1>1. /\ << >> \in Seq(Nat) /\ server_next \in Numbers /\ guest_next \in Numbers
      /\ toGuest \in Seq(Segments)
  <2>1. << >> \in Seq(Nat)
    OBVIOUS
  <2> QED
    BY <2>1 DEF Types
<1>2. ASSUME NEW x \in Segments, toGuest' = Append(toGuest, x) PROVE Grows(x)
  BY <1>1, <1>2, AppendOf DEF Grows
<1>3. CASE EndGoes(unacked, pending, eof)
  <2> DEFINE x == Sent(FALSE, TRUE, << >>, guest_next)
  <2>1. IsSegment(x, FALSE, TRUE, FALSE, server_next, guest_next, << >>)
    BY <1>1, SentSegment
  <2>2. toGuest' = Append(toGuest, x)
    BY <1>3, Zenon DEF EndGoes
  <2> HIDE DEF x
  <2>3. Grows(x)
    BY <1>2, <2>1, <2>2 DEF IsSegment
  <2> QED
    BY <1>3, <2>1, <2>3
<1>4. ASSUME NEW d \in Seq(Nat), ChunkGoes(unacked, pending, d)
      PROVE  \E x : Grows(x) /\ IsSegment(x, FALSE, FALSE, FALSE, server_next, guest_next, d)
  <2> DEFINE x == Sent(FALSE, FALSE, d, guest_next)
  <2>1. IsSegment(x, FALSE, FALSE, FALSE, server_next, guest_next, d)
    BY <1>1, SentSegment
  <2>2. toGuest' = Append(toGuest, x)
    BY <1>4, Zenon DEF ChunkGoes
  <2> HIDE DEF x
  <2>3. Grows(x)
    BY <1>2, <2>1, <2>2 DEF IsSegment
  <2> QED
    BY <2>1, <2>3
<1> QED
  BY <1>3, <1>4, PendingEffect

\* The frame task has taken a segment or none.
Within(q, p) ==
    \E m \in {0, 1} : /\ Len(p) \in Nat /\ Len(q) = Len(p) - m
                      /\ \A i \in 1 .. Len(q) : i + m \in 1 .. Len(p) /\ q[i] = p[i + m]

LEMMA TakesWithin ==
    ASSUME Types, (Ready /\ Takes) \/ toProxy' = toProxy
    PROVE  Within(toProxy', toProxy)
<1>1. CASE Ready /\ Takes
  BY <1>1, Taken DEF Within, Ready, Types
<1>2. CASE toProxy' = toProxy
  <2>1. Len(toProxy) \in Nat
    BY DEF Types
  <2>2. /\ Len(toProxy) \in Nat /\ Len(toProxy) = Len(toProxy) - 0
        /\ \A i \in 1 .. Len(toProxy) : i + 0 \in 1 .. Len(toProxy) /\ toProxy[i] = toProxy[i + 0]
    BY <2>1
  <2> QED
    BY <1>2, <2>2 DEF Within
<1> QED
  BY <1>1, <1>2

\* Every segment that goes to the guest acknowledges what guest_next says by then.
AcksOnly ==
    \A i \in 1 .. Len(toGuest') :
      \/ i \in 1 .. Len(toGuest) /\ toGuest'[i] = toGuest[i]
      \/ toGuest'[i].ack = guest_next'

LEMMA GrowsAcks ==
    ASSUME NEW x, Grows(x), x.ack = guest_next'
    PROVE  AcksOnly
<1>1. \A i \in 1 .. Len(toGuest') : i \in 1 .. Len(toGuest) \/ i = Len(toGuest) + 1
  BY DEF Grows
<1> QED
  BY <1>1 DEF Grows, AcksOnly

LEMMA PendingAcks ==
    ASSUME Types, Up, NEW unacked, NEW pending \in Seq(Nat), NEW eof \in BOOLEAN,
           SendHostPending(unacked, pending, eof), guest_next' = guest_next
    PROVE  AcksOnly
<1>1. CASE Holds(unacked, pending, eof)
  <2>1. toGuest' = toGuest
    BY <1>1, Zenon DEF Holds
  <2> QED
    BY <2>1 DEF AcksOnly
<1>2. ASSUME NEW x, NEW fin, NEW d, Grows(x),
             IsSegment(x, FALSE, fin, FALSE, server_next, guest_next, d)
      PROVE  AcksOnly
  BY <1>2, GrowsAcks DEF IsSegment
<1> QED
  BY <1>1, <1>2, PendingGrows

LEMMA ReachedMore ==
    ASSUME NEW n, NEW i \in Nat, NEW j \in Nat, i =< j, Reached(n, i)
    PROVE  Reached(n, j)
BY DEF Reached

LEMMA SpokenMore ==
    ASSUME NEW s, NEW n \in Nat, NEW m \in Nat, n =< m, NEW f, NEW g, f = g \/ f = None,
           Spoken(s, n, f)
    PROVE  Spoken(s, m, g)
<1>1. \A j \in 1 .. n : j \in 1 .. m
  OBVIOUS
<1> QED
  BY <1>1, Zenon DEF Spoken

LEMMA SpentType ==
    ASSUME Types
    PROVE  /\ guestSent \in Nat /\ guestSent =< GuestBytes /\ Spent \in Nat
           /\ Spent = IF finSeq = None THEN guestSent + 1 ELSE guestSent + 2
           /\ \A n \in 0 .. guestSent + 2 : n \in Numbers
<1>1. guestSent \in 0 .. GuestBytes /\ GuestBytes \in Nat /\ GuestBytes + 2 < Modulus /\ Modulus \in Nat
  BY WordSize DEF Types
<1> QED
  BY <1>1 DEF Spent, Numbers

\* What was said stays said, while the proxy works.
LEMMA SaidKept ==
    ASSUME Types, Said, Passed', Within(toProxy', toProxy), AcksOnly,
           UNCHANGED <<snd, finSeq, guestSent, una>>
    PROVE  Said'
<1>1. Spent' = Spent
  BY DEF Spent
<1>2. Reached(guest_next', Spent)
  <2>1. \E g \in 1 .. Spent' : guest_next' = Plus(GuestIsn, g)
    BY Zenon DEF Passed
  <2> QED
    BY <1>1, <2>1 DEF Reached
<1>3. \A i \in 1 .. Len(toProxy') : Plain(toProxy'[i]) => Spoken(toProxy'[i], guestSent, finSeq)
  BY DEF Said, Within
<1>4. \A i \in 1 .. Len(toGuest') : Reached(toGuest'[i].ack, Spent)
  BY <1>2, Zenon DEF Said, AcksOnly
<1>5. snd' = snd /\ finSeq' = finSeq /\ guestSent' = guestSent /\ una' = una
  OBVIOUS
<1> QED
  BY <1>1, <1>3, <1>4, <1>5, Zenon DEF Said

LEMMA PassedKept ==
    ASSUME Passed, UNCHANGED <<hostGot, guestSent, finSeq, guest_next>>,
           host_writer' \in {host_writer, "closed"}
    PROVE  Passed'
<1>1. Spent' = Spent
  BY DEF Spent
<1> QED
  BY <1>1 DEF Passed, Counts

\* A segment in the hands of the frame task: its data goes to the host exactly when it
\* is the next byte of the guest's stream.
LEMMA UpwardDeliver ==
    ASSUME Types, Upward, NEW x \in Segments, Spoken(x, guestSent, finSeq), Deliver(x)
    PROVE  Passed' /\ Handling' /\ guest_pending' = << >>
<1>0. /\ guestSent \in Nat /\ Spent \in Nat /\ Spent =< guestSent + 2
      /\ \A n \in 0 .. guestSent + 2 : n \in Numbers
      /\ hostGot \in Seq(Nat) /\ Len(hostGot) \in Nat /\ GuestIsn \in Numbers
  BY SpentType, WordSize DEF Types
<1>1. /\ frame' = x /\ handler' = IF x.data = << >> THEN Rest(x) ELSE "ack"
      /\ UNCHANGED <<link, host_writer, peer>>
  BY DEF Deliver
<1>2. Spent' = Spent /\ guestSent' = guestSent /\ finSeq' = finSeq /\ host_writer' = host_writer
  BY <1>1 DEF Spent, peer
<1>3. host_writer # "none" /\ guest_pending = << >>
  BY DEF Upward
<1>4. CASE x.data # << >> /\ InOrder(x)
  <2>1. /\ guest_next' = Plus(guest_next, Len(x.data)) /\ guest_pending' = guest_pending
        /\ hostGot' = IF host_writer = "open" THEN hostGot \o x.data ELSE hostGot
    BY <1>3, <1>4 DEF Deliver
  <2>2. PICK j \in 1 .. guestSent : x.data = <<j>> /\ x.seq = Plus(GuestIsn, j)
    BY <1>4 DEF Spoken
  <2>3. PICK g \in 1 .. Spent :
          /\ guest_next = Plus(GuestIsn, g)
          /\ host_writer = "open" => g = Len(hostGot) + 1 \/ g = guestSent + 2
    BY DEF Upward, Passed
  <2>4. g \in Numbers /\ j \in Numbers /\ 1 \in Numbers
    BY <1>0
  <2>5. g = j /\ g + 1 \in Numbers
    <3>1. g = j
      BY <1>0, <1>4, <2>2, <2>3, <2>4, PlusInjective DEF InOrder
    <3> QED
      BY <1>0, <3>1
  <2>6. guest_next' = Plus(GuestIsn, g + 1)
    <3>1. Len(x.data) = 1
      BY <2>2
    <3> QED
      BY <1>0, <2>1, <2>3, <2>4, <2>5, <3>1, PlusPlus
  <2>7. g + 1 \in 1 .. Spent
    BY <1>0, <2>5 DEF Spent
  <2>8. Counts(hostGot') /\ Len(hostGot') =< guestSent
        /\ (host_writer = "open" => g + 1 = Len(hostGot') + 1)
    <3>1. Counts(hostGot) /\ Len(hostGot) =< guestSent
      BY DEF Upward, Passed
    <3>2. CASE host_writer = "open"
      <4>1. g = Len(hostGot) + 1
        BY <1>0, <2>3, <2>5, <3>2
      <4>2. hostGot' = Append(hostGot, Len(hostGot) + 1)
        BY <1>0, <2>1, <2>2, <2>5, <3>2, <4>1
      <4>3. Len(hostGot') = Len(hostGot) + 1
        BY <1>0, <4>2
      <4>4. \A k \in DOMAIN hostGot' : hostGot'[k] = k
        BY <1>0, <3>1, <4>2 DEF Counts
      <4> QED
        BY <1>0, <2>5, <4>1, <4>3, <4>4 DEF Counts
    <3>3. CASE host_writer # "open"
      BY <2>1, <3>1, <3>3
    <3> QED
      BY <3>2, <3>3
  <2>9. Passed'
    BY <1>2, <2>6, <2>7, <2>8 DEF Passed
  <2>10. x.seq # guest_next'
    <3>1. SUFFICES ASSUME x.seq = guest_next' PROVE FALSE
      OBVIOUS
    <3>2. g = g + 1
      BY <1>0, <2>2, <2>4, <2>5, <2>6, <3>1, PlusInjective
    <3> QED
      BY <2>4, <3>2 DEF Numbers
  <2>11. handler' = "ack"
    BY <1>1, <1>4
  <2>12. Handling'
    BY <1>1, <1>2, <2>10, <2>11 DEF Handling
  <2> QED
    BY <1>3, <2>1, <2>9, <2>12
<1>5. CASE ~(x.data # << >> /\ InOrder(x))
  <2>1. guest_next' = guest_next /\ guest_pending' = guest_pending /\ hostGot' = hostGot
    BY <1>5 DEF Deliver
  <2>2. Passed'
    BY <1>2, <2>1, PassedKept DEF Upward
  <2>3. /\ handler' \in {"ack", "fin", "idle"}
        /\ handler' = "fin" => x.fin /\ x.data = << >>
    BY <1>1 DEF Rest
  <2>4. handler' = "ack" => x.seq # guest_next'
    BY <1>1, <1>5, <2>1 DEF InOrder, Rest
  <2>5. Handling'
    BY <1>1, <1>2, <2>3, <2>4, Zenon DEF Handling
  <2> QED
    BY <1>3, <2>1, <2>2, <2>5
<1> QED
  BY <1>4, <1>5

LEMMA UpwardFrame ==
    ASSUME Types, host_eof \in BOOLEAN, Up, Upward, SynsFirst, FrameTask
    PROVE  Upward'
<1>0. /\ host_writer # "none" /\ reader # "none" /\ guest_pending = << >>
      /\ Said /\ Handling /\ Passed /\ handler \notin {"connecting", "ended"}
      /\ guest_next \in Numbers /\ host_pending \in Seq(Nat) /\ toProxy \in Seq(Segments)
      /\ frame \in Segments
  BY DEF Upward, Handling, Types
<1>1. ASSUME Said', Handling', Passed', host_writer' \in {host_writer, "closed"}, reader' = reader,
             guest_pending' = << >>
      PROVE  Upward'
  BY <1>0, <1>1 DEF Upward
<1>2. ASSUME toGuest' = toGuest PROVE AcksOnly
  BY <1>2 DEF AcksOnly
<1>3. ASSUME NEW next \in Numbers, SendAck(next), guest_next' = next PROVE AcksOnly
  BY <1>3, BareAck, GrowsAcks DEF IsSegment
<1>4. ASSUME Ready, Takes
      PROVE  Segment = toProxy[1] /\ Segment \in Segments /\ 1 \in 1 .. Len(toProxy)
  BY <1>0, <1>4, Taken DEF Ready
<1>5. ASSUME Ordinary, Takes PROVE Segment \in Segments /\ Spoken(Segment, guestSent, finSeq)
  BY <1>0, <1>4, <1>5 DEF Ordinary, Said, Plain
<1>6. CASE HandleRst
  <2>1. UNCHANGED <<link, toGuest, tasks, proxy, host, peer>> /\ Ready /\ Takes
    BY <1>6 DEF HandleRst
  <2>2. Passed'
    BY <1>0, <2>1, PassedKept DEF tasks, proxy, host, peer
  <2>3. Said'
    BY <1>0, <1>2, <2>1, <2>2, SaidKept, TakesWithin DEF peer
  <2>4. Handling'
    BY <1>0, <2>1 DEF Handling, tasks, proxy, peer
  <2> QED
    BY <1>0, <1>1, <2>1, <2>2, <2>3, <2>4 DEF tasks, proxy
<1>7. CASE HandleSyn
  <2>1. /\ Ready /\ Takes /\ Segment.syn /\ guest_next' = Plus(Segment.seq, 1)
        /\ SynAck /\ handler' = handler
        /\ UNCHANGED <<link, frame, reader, host_writer, guest_pending, host, peer>>
    BY <1>0, <1>7 DEF HandleSyn
  <2>2. guest_next' = guest_next
    BY <1>4, <2>1 DEF SynsFirst, Asks
  <2>3. Passed'
    BY <1>0, <2>1, <2>2, PassedKept DEF host, peer
  <2>4. AcksOnly
    BY <1>0, <2>1, <2>2, SynAckEffect, GrowsAcks DEF IsSegment
  <2>5. Said'
    BY <1>0, <2>1, <2>3, <2>4, SaidKept, TakesWithin DEF peer
  <2>6. Handling'
    BY <1>0, <2>1, <2>2 DEF Handling, peer
  <2> QED
    BY <1>0, <1>1, <2>1, <2>3, <2>5, <2>6
<1>8. CASE HandleAck
  <2>1. /\ Ordinary /\ Takes /\ frame' = Segment /\ handler' = "data"
        /\ SendHostPending(None, host_pending, host_eof)
        /\ UNCHANGED <<link, reader, host_writer, guest_pending, guest_next, host, peer>>
    BY <1>8 DEF HandleAck
  <2>2. Passed'
    BY <1>0, <2>1, PassedKept DEF host, peer
  <2>3. AcksOnly
    BY <1>0, <2>1, PendingAcks
  <2>4. Said'
    BY <1>0, <2>1, <2>2, <2>3, SaidKept, TakesWithin DEF peer, Ordinary
  <2>5. Handling'
    BY <1>5, <2>1 DEF Handling, peer
  <2> QED
    BY <1>0, <1>1, <2>1, <2>2, <2>4, <2>5
<1>9. CASE HandleData
  <2>1. ASSUME NEW x \in Segments, Spoken(x, guestSent, finSeq), Deliver(x),
               Within(toProxy', toProxy)
        PROVE  Upward'
    <3>1. Passed' /\ Handling' /\ guest_pending' = << >>
      BY <2>1, UpwardDeliver
    <3>2. UNCHANGED <<toGuest, reader, host_writer, peer>>
      BY <2>1 DEF Deliver
    <3>3. Said'
      BY <1>0, <1>2, <2>1, <3>1, <3>2, SaidKept DEF peer
    <3> QED
      BY <1>1, <3>1, <3>2, <3>3
  <2>2. CASE Ordinary /\ ~Acknowledges(Segment.ack) /\ Takes /\ Deliver(Segment)
    <3>1. Within(toProxy', toProxy)
      BY <2>2, TakesWithin DEF Ordinary
    <3> QED
      BY <1>5, <2>1, <2>2, <3>1
  <2>3. CASE Up /\ handler = "data" /\ UNCHANGED toProxy /\ Deliver(frame)
    <3>1. Within(toProxy', toProxy)
      BY <2>3, TakesWithin
    <3>2. Spoken(frame, guestSent, finSeq)
      BY <1>0, <2>3 DEF Handling
    <3> QED
      BY <1>0, <2>1, <2>3, <3>1, <3>2
  <2> QED
    BY <1>9, <2>2, <2>3 DEF HandleData
<1>10. CASE AckData
  <2>1. /\ handler = "ack" /\ handler' = Rest(frame) /\ SendAck(guest_next)
        /\ UNCHANGED <<link, toProxy, frame, reader, host_writer, guest_pending, guest_next, host,
                       peer>>
    BY <1>10 DEF AckData
  <2>2. Passed'
    BY <1>0, <2>1, PassedKept DEF host, peer
  <2>3. AcksOnly
    BY <1>0, <1>3, <2>1
  <2>4. Said'
    BY <1>0, <2>1, <2>2, <2>3, SaidKept, TakesWithin DEF peer
  <2>5. Handling'
    BY <1>0, <2>1 DEF Handling, Rest, peer
  <2> QED
    BY <1>0, <1>1, <2>1, <2>2, <2>4, <2>5
<1>11. CASE HandleFin
  <2>1. /\ handler = "fin" /\ handler' = "close" /\ guest_next' = AfterFin /\ SendAck(guest_next')
        /\ UNCHANGED <<link, toProxy, frame, reader, host_writer, guest_pending, host, peer>>
    BY <1>11 DEF HandleFin
  <2>2. guest_next' \in Numbers
    BY <1>0, <2>1, PlusType DEF AfterFin
  <2>3. Passed'
    <3>1. CASE ~InOrder(frame)
      BY <1>0, <2>1, <3>1, PassedKept DEF AfterFin, host, peer
    <3>2. CASE InOrder(frame)
      <4>1. frame.data = << >> /\ frame.fin
        BY <1>0, <2>1, <3>2 DEF Handling, InOrder
      <4>2. finSeq # None /\ guest_next = finSeq
        BY <1>0, <2>1, <3>2, <4>1 DEF Handling, Spoken, InOrder
      <4>3. guest_next = Plus(GuestIsn, guestSent + 1) /\ Spent = guestSent + 2
        BY <1>0, <4>2 DEF Said, Spent, Types
      <4>4. guestSent \in Nat /\ GuestIsn \in Numbers /\ guestSent + 1 \in Numbers
            /\ 1 \in Numbers /\ guestSent + 2 \in Numbers /\ guestSent + 1 + 1 = guestSent + 2
        BY SpentType, WordSize
      <4>5. guest_next' = Plus(GuestIsn, guestSent + 2)
        BY <2>1, <3>2, <4>3, <4>4, PlusPlus DEF AfterFin
      <4>6. Spent' = Spent /\ guestSent' = guestSent /\ hostGot' = hostGot
        BY <2>1 DEF Spent, peer, host
      <4>7. guestSent + 2 \in 1 .. Spent'
        BY <4>3, <4>4, <4>6
      <4> QED
        BY <1>0, <4>5, <4>6, <4>7 DEF Passed, Counts
    <3> QED
      BY <3>1, <3>2
  <2>4. AcksOnly
    BY <1>3, <2>1, <2>2
  <2>5. Said'
    BY <1>0, <2>1, <2>3, <2>4, SaidKept, TakesWithin DEF peer
  <2>6. Handling'
    BY <2>1 DEF Handling
  <2> QED
    BY <1>0, <1>1, <2>1, <2>3, <2>5, <2>6
<1>12. CASE CloseHost
  <2>1. /\ handler' = "idle" /\ host_writer' = "closed"
        /\ UNCHANGED <<link, toProxy, toGuest, frame, reader, proxy, host, peer>>
    BY <1>0, <1>12 DEF CloseHost
  <2>2. Passed'
    BY <1>0, <2>1, PassedKept DEF proxy, host, peer
  <2>3. Said'
    BY <1>0, <1>2, <2>1, <2>2, SaidKept, TakesWithin DEF peer
  <2>4. Handling'
    BY <2>1 DEF Handling
  <2> QED
    BY <1>0, <1>1, <2>1, <2>2, <2>3, <2>4 DEF proxy
<1>13. ~ConnectHost
  BY <1>0 DEF ConnectHost
<1> QED
  BY <1>6, <1>7, <1>8, <1>9, <1>10, <1>11, <1>12, <1>13 DEF FrameTask

\* Both kinds of read_host's steps in one.
LEMMA ReadEffect ==
    ASSUME Types, host_eof \in BOOLEAN, ReadTask
    PROVE  /\ reader = "reading" /\ reader' \in {"reading", "done"}
           /\ \E pending \in Seq(Nat), eof \in BOOLEAN :
                /\ SendHostPending(server_unacked_end, pending, eof)
                /\ host_eof' = eof /\ (host_eof => eof)
                /\ hostSent' \in Nat
                /\ \A n \in Nat : n + Len(host_pending) = hostSent /\ Continues(host_pending, n) =>
                                    n + Len(pending) = hostSent' /\ Continues(pending, n)
           /\ UNCHANGED <<link, toProxy, handler, frame, host_writer, guest_pending, guest_next,
                          hostGot, peer>>
<1>0. host_pending \in Seq(Nat) /\ hostSent \in Nat /\ HostBytes \in Nat /\ TRUE \in BOOLEAN
  BY WordSize DEF Types
<1>1. CASE ReadHost
  <2>1. PICK upto \in hostSent + 1 .. HostBytes :
          /\ hostSent' = upto
          /\ SendHostPending(server_unacked_end, host_pending \o HostStream(hostSent, upto),
                             host_eof)
    BY <1>1 DEF ReadHost
  <2> DEFINE p == host_pending \o HostStream(hostSent, upto)
  <2>2. p \in Seq(Nat)
    <3>1. HostStream(hostSent, upto) \in Seq(Nat)
      BY <1>0 DEF HostStream
    <3> QED
      BY <1>0, <3>1, ConcatProperties
  <2>3. \A n \in Nat : n + Len(host_pending) = hostSent /\ Continues(host_pending, n) =>
                         n + Len(p) = upto /\ Continues(p, n)
    BY <1>0, ReadAppends
  <2>4. host_eof' = host_eof
    BY <1>1, Zenon DEF ReadHost
  <2>5. /\ reader = "reading" /\ reader' = reader
        /\ UNCHANGED <<link, toProxy, handler, frame, host_writer, guest_pending, guest_next,
                       hostGot, peer>>
    BY <1>1 DEF ReadHost, tasks
  <2>6. hostSent' \in Nat
    BY <1>0, <2>1
  <2> HIDE DEF p
  <2>7. SendHostPending(server_unacked_end, p, host_eof)
    BY <2>1 DEF p
  <2> QED
    BY <2>1, <2>2, <2>3, <2>4, <2>5, <2>6, <2>7
<1>2. CASE ReadEof
  <2>1. /\ reader = "reading" /\ reader' = "done"
        /\ SendHostPending(server_unacked_end, host_pending, TRUE)
        /\ UNCHANGED <<link, toProxy, handler, frame, host_writer, guest_pending, guest_next, host,
                       peer>>
    BY <1>2 DEF ReadEof
  <2>2. host_eof' = TRUE
    BY <1>2, Zenon DEF ReadEof
  <2>3. hostSent' = hostSent
    BY <2>1 DEF host
  <2> QED
    BY <1>0, <2>1, <2>2, <2>3 DEF host
<1> QED
  BY <1>1, <1>2 DEF ReadTask

LEMMA UpwardRead ==
    ASSUME Types, host_eof \in BOOLEAN, Up, Upward, ReadTask \/ UNCHANGED vars
    PROVE  Upward'
<1>0. /\ host_writer # "none" /\ reader # "none" /\ guest_pending = << >>
      /\ Said /\ Handling /\ Passed
  BY DEF Upward
<1>1. /\ UNCHANGED <<link, toProxy, handler, frame, host_writer, guest_pending, guest_next, hostGot,
                     peer>>
      /\ reader' # "none"
  BY <1>0, ReadEffect DEF vars, tasks, proxy, host, peer
<1>2. AcksOnly
  <2>1. CASE ReadTask
    <3>1. PICK pending \in Seq(Nat), eof \in BOOLEAN :
            SendHostPending(server_unacked_end, pending, eof)
      BY <2>1, ReadEffect
    <3> QED
      BY <1>1, <3>1, PendingAcks
  <2>2. CASE UNCHANGED vars
    BY <2>2 DEF vars, AcksOnly
  <2> QED
    BY <2>1, <2>2
<1>3. Passed'
  BY <1>0, <1>1, PassedKept DEF peer
<1>4. Said'
  BY <1>0, <1>1, <1>2, <1>3, SaidKept, TakesWithin DEF peer
<1>5. Handling'
  BY <1>0, <1>1 DEF Handling, peer
<1> QED
  BY <1>0, <1>1, <1>3, <1>4, <1>5 DEF Upward

\* The guest has sent x.
Says(x) ==
    /\ Len(toProxy) \in Nat /\ Len(toProxy') = Len(toProxy) + 1 /\ toProxy'[Len(toProxy) + 1] = x
    /\ \A i \in 1 .. Len(toProxy) : toProxy'[i] = toProxy[i]
    /\ \A i \in 1 .. Len(toProxy') : i \in 1 .. Len(toProxy) \/ i = Len(toProxy) + 1

LEMMA EmitSays ==
    ASSUME Types, NEW x \in Segments, Emit(x)
    PROVE  Says(x)
<1>1. /\ Len(toProxy) \in Nat /\ Len(toProxy') = Len(toProxy) + 1 /\ toProxy'[Len(toProxy) + 1] = x
      /\ \A i \in 1 .. Len(toProxy) : toProxy'[i] = toProxy[i]
  BY Emitted DEF Types
<1>2. \A i \in 1 .. Len(toProxy') : i \in 1 .. Len(toProxy) \/ i = Len(toProxy) + 1
  BY <1>1
<1> QED
  BY <1>1, <1>2 DEF Says

\* The guest uses up numbers, and gives none back.
LEMMA SpentGrows ==
    ASSUME guestSent \in Nat, guestSent' \in Nat, guestSent =< guestSent',
           finSeq' = finSeq \/ finSeq = None, finSeq # None => guestSent' = guestSent
    PROVE  /\ Spent \in Nat /\ Spent' \in Nat /\ Spent =< Spent'
           /\ finSeq # None => Spent' = Spent
           /\ finSeq = None => Spent = guestSent + 1
<1>1. /\ Spent = IF finSeq = None THEN guestSent + 1 ELSE guestSent + 2
      /\ Spent' = IF finSeq' = None THEN guestSent' + 1 ELSE guestSent' + 2
  BY DEF Spent
<1>2. CASE finSeq = None
  <2>1. Spent = guestSent + 1
    BY <1>1, <1>2
  <2>2. Spent' = guestSent' + 1 \/ Spent' = guestSent' + 2
    BY <1>1
  <2> QED
    BY <1>2, <2>1, <2>2
<1>3. CASE finSeq # None
  <2>1. finSeq' # None /\ guestSent' = guestSent
    BY <1>3
  <2>2. Spent = guestSent + 2 /\ Spent' = guestSent + 2
    BY <1>1, <1>3, <2>1
  <2> QED
    BY <1>3, <2>2
<1> QED
  BY <1>2, <1>3

\* The guest's steps only add to what it has said.
LEMMA UpwardSays ==
    ASSUME Types, Types', Upward,
           UNCHANGED <<handler, frame, reader, host_writer, guest_pending, guest_next, hostGot>>,
           guestSent =< guestSent', finSeq' = finSeq \/ finSeq = None,
           finSeq # None => guestSent' = guestSent,
           snd' = Plus(GuestIsn, Spent'),
           finSeq' # None => finSeq' = Plus(GuestIsn, guestSent' + 1),
           Reached(una', Spent),
           \A i \in 1 .. Len(toGuest') : Reached(toGuest'[i].ack, Spent),
           toProxy' = toProxy \/ \E x : Says(x) /\ (Plain(x) => Spoken(x, guestSent', finSeq'))
    PROVE  Upward'
<1>0. /\ Spent \in Nat /\ Spent' \in Nat /\ Spent =< Spent' /\ guestSent \in Nat /\ guestSent' \in Nat
      /\ finSeq # None => Spent' = Spent
      /\ finSeq = None => Spent = guestSent + 1
  BY SpentGrows, WordSize DEF Types
<1>1. \A n : Reached(n, Spent) => Reached(n, Spent')
  BY <1>0, ReachedMore
<1>2. \A s : Spoken(s, guestSent, finSeq) => Spoken(s, guestSent', finSeq')
  BY <1>0, SpokenMore
<1>3. \A i \in 1 .. Len(toProxy') : Plain(toProxy'[i]) => Spoken(toProxy'[i], guestSent', finSeq')
  <2>1. \A i \in 1 .. Len(toProxy) : Plain(toProxy[i]) => Spoken(toProxy[i], guestSent', finSeq')
    BY <1>2, Zenon DEF Upward, Said
  <2>2. ASSUME NEW x, Says(x), Plain(x) => Spoken(x, guestSent', finSeq'),
               NEW i \in 1 .. Len(toProxy'), Plain(toProxy'[i])
        PROVE  Spoken(toProxy'[i], guestSent', finSeq')
    BY <2>1, <2>2, Zenon DEF Says
  <2> QED
    BY <2>1, <2>2
<1>4. Said'
  BY <1>1, <1>3, Zenon DEF Said
<1>5. Handling'
  BY <1>2 DEF Upward, Handling
<1>6. Passed'
  <2>1. Counts(hostGot') /\ Len(hostGot') =< guestSent'
    <3>1. hostGot \in Seq(Nat) /\ Len(hostGot) \in Nat
      BY DEF Types
    <3> QED
      BY <1>0, <3>1 DEF Upward, Passed, Counts
  <2>2. PICK g \in 1 .. Spent : /\ guest_next = Plus(GuestIsn, g)
                                /\ host_writer = "open" => g = Len(hostGot) + 1 \/ g = guestSent + 2
    BY DEF Upward, Passed
  <2>3. g \in 1 .. Spent' /\ (g = guestSent + 2 => g = guestSent' + 2)
    <3>1. g \in Nat /\ g =< Spent /\ g \in 1 .. Spent'
      BY <1>0
    <3>2. g = guestSent + 2 => finSeq # None
      BY <1>0, <3>1
    <3> QED
      BY <3>1, <3>2
  <2> QED
    BY <2>1, <2>2, <2>3 DEF Passed
<1> QED
  BY <1>4, <1>5, <1>6 DEF Upward

LEMMA UpwardGuest ==
    ASSUME Types, Types', guest \in {"open", "reset"}, Upward, Guest
    PROVE  Upward'
<1>0. /\ Said /\ guestSent \in Nat /\ Spent \in Nat /\ GuestIsn \in Numbers /\ snd \in Numbers
      /\ una \in Numbers /\ rcv \in Numbers /\ toGuest \in Seq(Segments)
      /\ Spent = IF finSeq = None THEN guestSent + 1 ELSE guestSent + 2
      /\ snd = Plus(GuestIsn, Spent) /\ << >> \in Seq(Nat)
      /\ \A n \in 0 .. guestSent + 2 : n \in Numbers
  <2>1. << >> \in Seq(Nat)
    OBVIOUS
  <2> QED
    BY <2>1, SpentType, WordSize DEF Upward, Said, Types
<1>1. /\ Reached(una, Spent) /\ \A i \in 1 .. Len(toGuest) : Reached(toGuest[i].ack, Spent)
      /\ finSeq # None => finSeq = Plus(GuestIsn, guestSent + 1)
  BY <1>0 DEF Said
<1>2. CASE GuestReceive
  <2> DEFINE s == Head(toGuest)
             x == [Nothing EXCEPT !.seq = snd, !.ack = rcv']
  <2>1. /\ una' = s.ack /\ (toProxy' = toProxy \/ Emit(x))
        /\ UNCHANGED <<tasks, proxy, host, snd, guestSent, finSeq>>
        /\ toGuest # << >> /\ toGuest' = Tail(toGuest)
    BY <1>2 DEF GuestReceive
  <2>2. /\ s = toGuest[1] /\ 1 \in 1 .. Len(toGuest)
        /\ \A i \in 1 .. Len(toGuest') : toGuest'[i] = toGuest[i + 1] /\ i + 1 \in 1 .. Len(toGuest)
    BY <1>0, <2>1, Received
  <2>3. Emit(x) => Says(x) /\ Spoken(x, guestSent', finSeq')
    <3>1. rcv' \in Numbers
      BY DEF Types
    <3>2. IsSegment(x, FALSE, FALSE, FALSE, snd, rcv', << >>)
      BY <1>0, <3>1, GuestSegments
    <3> HIDE DEF x
    <3>3. Spoken(x, guestSent', finSeq')
      BY <3>2, Zenon DEF IsSegment, Spoken
    <3> QED
      BY <3>2, <3>3, EmitSays DEF IsSegment
  <2>4. Reached(una', Spent) /\ \A i \in 1 .. Len(toGuest') : Reached(toGuest'[i].ack, Spent)
    <3>1. una' = toGuest[1].ack
      <4>1. una' = Head(toGuest).ack /\ Head(toGuest) = toGuest[1]
        <5>1. una' = Head(toGuest).ack
          BY <1>2 DEF GuestReceive
        <5>2. Head(toGuest) = toGuest[1]
          BY <2>2
        <5> QED
          BY <5>1, <5>2
      <4> QED
        BY <4>1, Zenon
    <3> QED
      BY <1>1, <2>2, <3>1, Zenon
  <2>5. Spent' = Spent /\ guestSent' = guestSent /\ finSeq' = finSeq /\ snd' = snd
    BY <2>1 DEF Spent
  <2>6. toProxy' = toProxy \/ \E y : Says(y) /\ (Plain(y) => Spoken(y, guestSent', finSeq'))
    BY <2>1, <2>3
  <2> QED
    BY <1>0, <1>1, <2>1, <2>4, <2>5, <2>6, UpwardSays DEF tasks, proxy, host
<1>3. CASE GuestSend
  <2> DEFINE x == GuestSegment(snd, <<guestSent + 1>>, FALSE)
  <2>1. /\ finSeq = None /\ guestSent' = guestSent + 1 /\ snd' = Plus(snd, 1) /\ Emit(x)
        /\ UNCHANGED <<toGuest, tasks, proxy, host, una, finSeq>>
    BY <1>3 DEF GuestSend
  <2>2. Spent' = Spent + 1 /\ Spent = guestSent + 1
    BY <1>0, <2>1 DEF Spent
  <2>3. snd' = Plus(GuestIsn, Spent')
    <3>1. Spent \in Numbers /\ 1 \in Numbers /\ Spent + 1 \in Numbers
      BY <1>0, <2>2
    <3> QED
      BY <1>0, <2>1, <2>2, <3>1, PlusPlus
  <2>4. Says(x) /\ Spoken(x, guestSent', finSeq')
    <3>1. <<guestSent + 1>> \in Seq(Nat)
      BY <1>0
    <3>2. IsSegment(x, FALSE, FALSE, FALSE, snd, rcv, <<guestSent + 1>>)
      BY <1>0, <3>1, GuestSegments
    <3> HIDE DEF x
    <3>3. guestSent + 1 \in 1 .. guestSent'
      BY <1>0, <2>1
    <3>4. Spoken(x, guestSent', finSeq')
      BY <1>0, <2>2, <3>2, <3>3, Zenon DEF IsSegment, Spoken
    <3> QED
      BY <2>1, <3>2, <3>4, EmitSays DEF IsSegment
  <2>5. \E y : Says(y) /\ (Plain(y) => Spoken(y, guestSent', finSeq'))
    BY <2>4
  <2>6. guestSent =< guestSent'
    BY <1>0, <2>1
  <2> QED
    BY <1>1, <2>1, <2>3, <2>5, <2>6, UpwardSays DEF tasks, proxy, host
<1>4. CASE GuestFin
  <2> DEFINE x == GuestSegment(snd, << >>, TRUE)
  <2>1. /\ finSeq = None /\ finSeq' = snd /\ snd' = Plus(snd, 1) /\ Emit(x)
        /\ UNCHANGED <<toGuest, tasks, proxy, host, una, guestSent>>
    BY <1>4 DEF GuestFin
  <2>2. Spent = guestSent + 1 /\ snd # None
    BY <1>0, <2>1 DEF Numbers, None
  <2>3. Spent' = Spent + 1
    BY <1>0, <2>1, <2>2 DEF Spent
  <2>4. snd' = Plus(GuestIsn, Spent')
    <3>1. Spent \in Numbers /\ 1 \in Numbers /\ Spent + 1 \in Numbers
      BY <1>0, <2>2
    <3> QED
      BY <1>0, <2>1, <2>3, <3>1, PlusPlus
  <2>5. Says(x) /\ Spoken(x, guestSent', finSeq')
    <3>1. TRUE \in BOOLEAN
      OBVIOUS
    <3>2. IsSegment(x, FALSE, TRUE, FALSE, snd, rcv, << >>)
      BY <1>0, <3>1, GuestSegments
    <3> HIDE DEF x
    <3>3. Spoken(x, guestSent', finSeq')
      BY <2>1, <2>2, <3>2, Zenon DEF IsSegment, Spoken
    <3> QED
      BY <2>1, <3>2, <3>3, EmitSays DEF IsSegment
  <2>6. \E y : Says(y) /\ (Plain(y) => Spoken(y, guestSent', finSeq'))
    BY <2>5
  <2>7. guestSent =< guestSent' /\ finSeq' = Plus(GuestIsn, guestSent' + 1)
    BY <1>0, <2>1, <2>2
  <2> QED
    BY <1>1, <2>1, <2>4, <2>6, <2>7, UpwardSays DEF tasks, proxy, host
<1>5. CASE GuestFinWithData
  <2> DEFINE x == GuestSegment(snd, <<guestSent + 1>>, TRUE)
  <2>1. /\ finSeq = None /\ guestSent' = guestSent + 1 /\ finSeq' = Plus(snd, 1)
        /\ snd' = Plus(snd, 2) /\ Emit(x) /\ guestSent < GuestBytes
        /\ UNCHANGED <<toGuest, tasks, proxy, host, una>>
    BY <1>5 DEF GuestFinWithData
  <2>2. Spent = guestSent + 1 /\ finSeq' # None
    <3>1. Plus(snd, 1) # None
      BY <1>0, PlusType, WordSize DEF Numbers, None
    <3> QED
      BY <1>0, <2>1, <3>1
  <2>3. Spent' = Spent + 2 /\ Spent + 1 = guestSent' + 1
    BY <1>0, <2>1, <2>2 DEF Spent
  <2>4. snd' = Plus(GuestIsn, Spent') /\ finSeq' = Plus(GuestIsn, guestSent' + 1)
    <3>1. /\ Spent \in Numbers /\ 1 \in Numbers /\ Spent + 1 \in Numbers /\ 2 \in Numbers
          /\ Spent + 2 \in Numbers
      BY <1>0, <2>1, <2>2, WordSize DEF Numbers
    <3> QED
      BY <1>0, <2>1, <2>3, <3>1, PlusPlus
  <2>5. Says(x) /\ Spoken(x, guestSent', finSeq')
    <3>1. <<guestSent + 1>> \in Seq(Nat) /\ TRUE \in BOOLEAN
      BY <1>0
    <3>2. IsSegment(x, FALSE, TRUE, FALSE, snd, rcv, <<guestSent + 1>>)
      BY <1>0, <3>1, GuestSegments
    <3> HIDE DEF x
    <3>3. guestSent + 1 \in 1 .. guestSent'
      BY <1>0, <2>1
    <3>4. Spoken(x, guestSent', finSeq')
      BY <1>0, <2>2, <3>2, <3>3, Zenon DEF IsSegment, Spoken
    <3> QED
      BY <2>1, <3>2, <3>4, EmitSays DEF IsSegment
  <2>6. \E y : Says(y) /\ (Plain(y) => Spoken(y, guestSent', finSeq'))
    BY <2>5
  <2>7. guestSent =< guestSent'
    BY <1>0, <2>1
  <2> QED
    BY <1>1, <2>1, <2>4, <2>6, <2>7, UpwardSays DEF tasks, proxy, host
<1>6. CASE GuestRepeat
  <2>1. /\ una # snd
        /\ Emit(IF una = finSeq THEN GuestSegment(una, << >>, TRUE)
                ELSE GuestSegment(una, <<(una - GuestIsn) % Modulus>>, FALSE))
        /\ UNCHANGED <<toGuest, tasks, proxy, host, snd, una, guestSent, finSeq>>
    BY <1>6 DEF GuestRepeat
  <2>2. PICK u \in 1 .. Spent : una = Plus(GuestIsn, u)
    BY <1>1 DEF Reached
  <2>3. u \in Numbers /\ u # Spent
    BY <1>0, <2>1, <2>2
  <2>4. (una - GuestIsn) % Modulus = u
    BY <1>0, <2>2, <2>3, PlusMinus
  <2>5. una # finSeq => u \in 1 .. guestSent
    BY <1>0, <1>1, <2>2, <2>3
  <2>6. \E y : Says(y) /\ (Plain(y) => Spoken(y, guestSent', finSeq'))
    <3>1. CASE una = finSeq
      <4> DEFINE x == GuestSegment(una, << >>, TRUE)
      <4>1. Emit(x) /\ TRUE \in BOOLEAN
        BY <2>1, <3>1
      <4>2. IsSegment(x, FALSE, TRUE, FALSE, una, rcv, << >>)
        BY <1>0, <4>1, GuestSegments
      <4> HIDE DEF x
      <4>3. una # None
        BY <1>0 DEF Numbers, None
      <4>4. Spoken(x, guestSent', finSeq')
        BY <2>1, <3>1, <4>2, <4>3 DEF IsSegment, Spoken
      <4> QED
        BY <4>1, <4>2, <4>4, EmitSays DEF IsSegment
    <3>2. CASE una # finSeq
      <4> DEFINE x == GuestSegment(una, <<u>>, FALSE)
      <4>1. Emit(x) /\ <<u>> \in Seq(Nat)
        <5>1. Emit(GuestSegment(una, <<(una - GuestIsn) % Modulus>>, FALSE))
          BY <2>1, <3>2
        <5>2. <<u>> \in Seq(Nat)
          BY <1>0
        <5> QED
          BY <2>4, <5>1, <5>2
      <4>2. IsSegment(x, FALSE, FALSE, FALSE, una, rcv, <<u>>)
        BY <1>0, <4>1, GuestSegments
      <4> HIDE DEF x
      <4>3. Spoken(x, guestSent', finSeq')
        BY <2>1, <2>2, <2>5, <3>2, <4>2 DEF IsSegment, Spoken
      <4> QED
        BY <4>1, <4>2, <4>3, EmitSays DEF IsSegment
    <3> QED
      BY <3>1, <3>2
  <2>7. Spent' = Spent /\ guestSent =< guestSent'
    BY <1>0, <2>1 DEF Spent
  <2> QED
    BY <1>0, <1>1, <2>1, <2>6, <2>7, UpwardSays DEF tasks, proxy, host
<1>7. CASE GuestReset
  <2> DEFINE x == [Nothing EXCEPT !.rst = TRUE, !.seq = snd]
  <2>1. Emit(x) /\ UNCHANGED <<toGuest, tasks, proxy, host, snd, una, guestSent, finSeq>>
    BY <1>7 DEF GuestReset
  <2>2. IsSegment(x, FALSE, FALSE, TRUE, snd, 0, << >>)
    BY <1>0, GuestSegments
  <2> HIDE DEF x
  <2>3. Says(x) /\ ~Plain(x)
    BY <2>1, <2>2, EmitSays DEF IsSegment, Plain
  <2>4. Spent' = Spent /\ guestSent =< guestSent'
    BY <1>0, <2>1 DEF Spent
  <2>5. \E y : Says(y) /\ (Plain(y) => Spoken(y, guestSent', finSeq'))
    BY <2>3
  <2> QED
    BY <1>0, <1>1, <2>1, <2>4, <2>5, UpwardSays DEF tasks, proxy, host
<1>8. ~GuestConnect
  BY DEF GuestConnect
<1> QED
  BY <1>2, <1>3, <1>4, <1>5, <1>6, <1>7, <1>8 DEF Guest

-----------------------------------------------------------------------------
(***************************************************************************)
(* Repeated SYNs.                                                          *)
(***************************************************************************)
LEMMA FirstSegment ==
    ASSUME Types, Ready
    PROVE  Segment = toProxy[1] /\ Segment \in Segments /\ 1 \in 1 .. Len(toProxy)
           /\ Len(toProxy) \in Nat
BY TailOf DEF Ready, Segment, Types

\* The frame task gets at anything but a SYN only once it has answered them all.
LEMMA SynsAnswered ==
    ASSUME Types, SynsFirst, FrameTask, ~HandleSyn, ~ConnectHost
    PROVE  /\ \A i \in 1 .. Len(toProxy) : ~toProxy[i].syn
           /\ syns > 1 => server_next = Plus(ServerIsn, syns)
           /\ Within(toProxy', toProxy) /\ syns' = syns
<1>1. PICK a \in 0 .. Len(toProxy) :
        /\ \A i \in 1 .. Len(toProxy) : toProxy[i].syn <=> i =< a
        /\ a > 0 => handler = "idle"
        /\ syns > 1 => server_next = Plus(ServerIsn, syns - a)
  BY DEF SynsFirst
<1>2. /\ \/ Ready /\ Takes /\ ~Segment.syn
         \/ toProxy' = toProxy /\ handler # "idle"
      /\ syns' = syns
  <2>1. CASE HandleRst
    <3>1. Ready /\ Takes /\ Segment.rst /\ UNCHANGED peer
      BY <2>1 DEF HandleRst
    <3>2. Segment.syn => Asks(Segment)
      BY <3>1, FirstSegment DEF SynsFirst
    <3>3. ~Segment.syn
      BY <3>1, <3>2, Zenon DEF Asks
    <3> QED
      BY <3>1, <3>3, Zenon DEF peer
  <2>2. CASE HandleAck
    BY <2>2, Zenon DEF HandleAck, Ordinary, peer
  <2>3. CASE HandleData
    <3>1. \A x : Deliver(x) => UNCHANGED peer
      BY DEF Deliver
    <3>2. \/ Ready /\ Takes /\ ~Segment.syn
          \/ toProxy' = toProxy /\ handler = "data"
      BY <2>3, Zenon DEF HandleData, Ordinary
    <3>3. UNCHANGED peer
      BY <2>3, <3>1, Zenon DEF HandleData
    <3>4. syns' = syns
      BY <3>3, Zenon DEF peer
    <3>5. "data" # "idle"
      OBVIOUS
    <3> QED
      BY <3>2, <3>4, <3>5, Zenon
  <2>4. CASE AckData \/ HandleFin \/ CloseHost
    BY <2>4 DEF AckData, HandleFin, CloseHost, peer
  <2> QED
    BY <2>1, <2>2, <2>3, <2>4 DEF FrameTask
<1>3. a = 0
  BY <1>1, <1>2, FirstSegment
<1>4. Within(toProxy', toProxy)
  BY <1>2, TakesWithin
<1>5. syns \in Nat /\ syns - 0 = syns
  BY WordSize DEF Types
<1> QED
  BY <1>1, <1>2, <1>3, <1>4, <1>5

\* No acknowledgement is current once a SYN has been repeated.
LEMMA StuckAck ==
    ASSUME Types, SynsFirst, Stuck, syns > 1, Ordinary
    PROVE  ~Acknowledges(Segment.ack)
<1>1. Ready /\ Plain(Segment)
  BY DEF Ordinary, Plain
<1>2. Segment = toProxy[1] /\ Segment \in Segments /\ 1 \in 1 .. Len(toProxy)
      /\ Len(toProxy) \in Nat
  BY <1>1, FirstSegment
<1>3. Segment.ack = Plus(ServerIsn, 1) /\ Segment.ack \in Numbers
  BY <1>1, <1>2 DEF Stuck, Segments
<1>4. server_next = Plus(ServerIsn, syns)
  <2>1. PICK a \in 0 .. Len(toProxy) :
          /\ \A i \in 1 .. Len(toProxy) : toProxy[i].syn <=> i =< a
          /\ server_next = Plus(ServerIsn, syns - a)
    BY DEF SynsFirst
  <2>2. ~toProxy[1].syn
    BY <1>1, <1>2 DEF Plain
  <2>3. a = 0
    BY <1>2, <2>1, <2>2
  <2> QED
    BY <2>1, <2>3, WordSize DEF Types
<1>5. /\ syns - 1 \in Nat /\ syns - 1 > 0 /\ 2 * (syns - 1) =< Modulus /\ 1 + (syns - 1) = syns
      /\ syns - 1 \in Numbers /\ 1 \in Numbers /\ syns \in Numbers
  BY WordSize DEF Types, Numbers
<1>6. server_unacked_end = Plus(Segment.ack, syns - 1)
  <2>1. Plus(Plus(ServerIsn, 1), syns - 1) = Plus(ServerIsn, 1 + (syns - 1))
    BY <1>5, PlusPlus, WordSize
  <2> QED
    BY <1>3, <1>4, <1>5, <2>1 DEF Stuck
<1> QED
  BY <1>3, <1>5, <1>6, AckDecides

\* Nothing more is sent then.
LEMMA StuckHolds ==
    ASSUME Types, Flags, Stuck, NEW pending \in Seq(Nat), NEW eof \in BOOLEAN,
           SendHostPending(server_unacked_end, pending, eof)
    PROVE  UNCHANGED <<toGuest, server_next, server_unacked_end>> /\ ~fin_sent'
<1>1. server_unacked_end # None
  BY WordSize DEF Stuck, Types, Numbers, None
<1>2. ~EndGoes(server_unacked_end, pending, eof)
  BY <1>1, Zenon DEF EndGoes
<1>3. \A d \in Seq(Nat) : ~ChunkGoes(server_unacked_end, pending, d)
  BY <1>1, Zenon DEF ChunkGoes
<1>4. Holds(server_unacked_end, pending, eof)
  BY <1>2, <1>3, PendingEffect
<1> QED
  BY <1>4, Zenon DEF Holds, Stuck

\* The segments for the guest are bare acknowledgements, or answers to SYNs.
Bare(x) == ~x.fin /\ x.data = << >>

LEMMA StuckFrame ==
    ASSUME Types, Flags, Up, Upward, SynsFirst, Stuck, syns > 1, FrameTask
    PROVE  /\ Stuck'
           /\ HandleSyn => server_next' = Plus(server_next, 1)
           /\ ~HandleSyn => server_next' = server_next
<1>0. /\ host_writer # "none" /\ handler \notin {"connecting", "ended"} /\ guest_next \in Numbers
      /\ host_pending \in Seq(Nat) /\ \A i \in 1 .. Len(toGuest) : Bare(toGuest[i])
  BY DEF Upward, Handling, Types, Stuck, Bare
<1>1. ASSUME NEW x, Grows(x), Bare(x)
      PROVE  \A i \in 1 .. Len(toGuest') : Bare(toGuest'[i])
  <2>1. \A i \in 1 .. Len(toGuest') : i \in 1 .. Len(toGuest) \/ i = Len(toGuest) + 1
    BY <1>1 DEF Grows
  <2> QED
    BY <1>0, <1>1, <2>1, Zenon DEF Grows
<1>2. ASSUME \A i \in 1 .. Len(toGuest') : Bare(toGuest'[i]), server_unacked_end' = server_next',
             UNCHANGED <<fin_sent, rcv, guestGot, guestEof>>, Within(toProxy', toProxy)
      PROVE  Stuck'
  <2>1. \A i \in 1 .. Len(toProxy') : Plain(toProxy'[i]) => toProxy'[i].ack = Plus(ServerIsn, 1)
    BY <1>2 DEF Stuck, Within
  <2>2. ~guestEof' /\ ~fin_sent'
    BY <1>2, Zenon DEF Stuck
  <2>3. rcv' = Plus(ServerIsn, 1) /\ guestGot' = << >>
    BY <1>2 DEF Stuck
  <2> QED
    BY <1>2, <2>1, <2>2, <2>3, Zenon DEF Stuck, Bare
<1>3. CASE HandleSyn
  <2>1. /\ Ready /\ Takes /\ guest_next' = Plus(Segment.seq, 1) /\ SynAck
        /\ UNCHANGED <<fin_sent, peer>>
    BY <1>0, <1>3 DEF HandleSyn
  <2>2. guest_next' \in Numbers
    BY <2>1, FirstSegment, PlusType DEF Segments
  <2>3. /\ \A i \in 1 .. Len(toGuest') : Bare(toGuest'[i])
        /\ server_next' = Plus(server_next, 1) /\ server_unacked_end' = server_next'
    <3>1. PICK x : Grows(x) /\ IsSegment(x, TRUE, FALSE, FALSE, server_next, guest_next', << >>)
      BY <2>1, <2>2, SynAckEffect
    <3>2. Bare(x)
      BY <3>1 DEF IsSegment, Bare
    <3> QED
      BY <1>1, <2>1, <2>2, <3>1, <3>2, SynAckEffect
  <2> QED
    BY <1>2, <1>3, <2>1, <2>3, TakesWithin DEF peer
<1>4. CASE ~HandleSyn
  <2>1. ~ConnectHost
    BY <1>0 DEF ConnectHost
  <2>2. Within(toProxy', toProxy)
    BY <1>4, <2>1, SynsAnswered
  <2>3. ~HandleAck
    BY StuckAck DEF HandleAck
  <2>4. UNCHANGED <<fin_sent, peer>>
    BY <1>4, <2>1, <2>3
    DEF FrameTask, HandleRst, HandleData, Deliver, AckData, HandleFin, CloseHost, proxy
  <2>5. /\ \A i \in 1 .. Len(toGuest') : Bare(toGuest'[i])
        /\ server_next' = server_next /\ server_unacked_end' = server_unacked_end
    <3>1. ASSUME NEW next \in Numbers, SendAck(next)
          PROVE  /\ \A i \in 1 .. Len(toGuest') : Bare(toGuest'[i])
                 /\ server_next' = server_next /\ server_unacked_end' = server_unacked_end
      <4>1. PICK x : Grows(x) /\ IsSegment(x, FALSE, FALSE, FALSE, server_next, next, << >>)
        BY <3>1, BareAck
      <4>2. Bare(x)
        BY <4>1 DEF IsSegment, Bare
      <4> QED
        BY <1>1, <3>1, <4>1, <4>2, BareAck
    <3>2. CASE HandleRst \/ HandleData \/ CloseHost
      <4>1. UNCHANGED <<toGuest, server_next, server_unacked_end>>
        BY <3>2 DEF HandleRst, HandleData, Deliver, CloseHost, proxy
      <4> QED
        BY <1>0, <4>1
    <3>3. CASE AckData
      BY <1>0, <3>1, <3>3 DEF AckData
    <3>4. CASE HandleFin
      <4>1. AfterFin \in Numbers
        BY <1>0, PlusType DEF AfterFin
      <4> QED
        BY <3>1, <3>4, <4>1 DEF HandleFin
    <3> QED
      BY <1>4, <2>1, <2>3, <3>2, <3>3, <3>4 DEF FrameTask
  <2>6. server_unacked_end' = server_next'
    BY <2>5 DEF Stuck
  <2> QED
    BY <1>2, <1>4, <2>2, <2>4, <2>5, <2>6 DEF peer
<1> QED
  BY <1>3, <1>4

LEMMA StuckOthers ==
    ASSUME Types, Flags, Stuck, ReadTask \/ UNCHANGED vars
    PROVE  Stuck' /\ server_next' = server_next
<1>1. /\ UNCHANGED <<toGuest, server_next, server_unacked_end, toProxy, peer>> /\ ~fin_sent'
  <2>1. CASE ReadTask
    <3>1. PICK pending \in Seq(Nat), eof \in BOOLEAN :
            SendHostPending(server_unacked_end, pending, eof)
      BY <2>1, ReadEffect DEF Flags
    <3>2. UNCHANGED <<toProxy, peer>>
      BY <2>1, ReadEffect DEF Flags
    <3> QED
      BY <3>1, <3>2, StuckHolds
  <2>2. CASE UNCHANGED vars
    <3>1. ~fin_sent'
      BY <2>2, Zenon DEF vars, proxy, Stuck
    <3> QED
      BY <2>2, <3>1 DEF vars, proxy
  <2> QED
    BY <2>1, <2>2
<1>2. ~guestEof'
  BY <1>1, Zenon DEF peer, Stuck
<1> DEFINE Same == /\ toGuest' = toGuest /\ toProxy' = toProxy /\ server_next' = server_next
                   /\ server_unacked_end' = server_unacked_end /\ rcv' = rcv /\ guestGot' = guestGot
<1>3. Same
  BY <1>1 DEF peer
<1> QED
  BY <1>1, <1>2, <1>3, Zenon DEF Stuck

-----------------------------------------------------------------------------
(***************************************************************************)
(* The guest's steps once it has its connection.                           *)
(***************************************************************************)
LEMMA GuestSays ==
    ASSUME Types, guest \in {"open", "reset"}, Guest, ~GuestReceive
    PROVE  /\ \E x : Says(x) /\ ~x.syn /\ (Plain(x) => x.ack = rcv)
           /\ UNCHANGED <<link, toGuest, tasks, proxy, host, rcv, guestGot, guestEof, syns>>
           /\ guest' \in {"open", "reset"}
<1>0. /\ guestSent \in Nat /\ snd \in Numbers /\ una \in Numbers /\ rcv \in Numbers
      /\ << >> \in Seq(Nat) /\ TRUE \in BOOLEAN
  <2>1. << >> \in Seq(Nat) /\ TRUE \in BOOLEAN
    OBVIOUS
  <2> QED
    BY <2>1, WordSize DEF Types
<1>1. ASSUME NEW seq \in Numbers, NEW data \in Seq(Nat), NEW fin \in BOOLEAN,
             Emit(GuestSegment(seq, data, fin))
      PROVE  \E x : Says(x) /\ ~x.syn /\ (Plain(x) => x.ack = rcv)
  <2> DEFINE x == GuestSegment(seq, data, fin)
  <2>1. IsSegment(x, FALSE, fin, FALSE, seq, rcv, data) /\ Emit(x)
    BY <1>0, <1>1, GuestSegments
  <2> HIDE DEF x
  <2>2. Says(x) /\ ~x.syn /\ x.ack = rcv
    BY <2>1, EmitSays DEF IsSegment
  <2> QED
    BY <2>2
<1>2. CASE GuestSend
  <2>1. <<guestSent + 1>> \in Seq(Nat)
    BY <1>0
  <2>2. Emit(GuestSegment(snd, <<guestSent + 1>>, FALSE))
    BY <1>2 DEF GuestSend
  <2> QED
    BY <1>0, <1>1, <1>2, <2>1, <2>2 DEF GuestSend
<1>3. CASE GuestFin
  <2>1. Emit(GuestSegment(snd, << >>, TRUE))
    BY <1>3 DEF GuestFin
  <2> QED
    BY <1>0, <1>1, <1>3, <2>1 DEF GuestFin
<1>4. CASE GuestFinWithData
  <2>1. <<guestSent + 1>> \in Seq(Nat)
    BY <1>0
  <2>2. Emit(GuestSegment(snd, <<guestSent + 1>>, TRUE))
    BY <1>4 DEF GuestFinWithData
  <2> QED
    BY <1>0, <1>1, <1>4, <2>1, <2>2 DEF GuestFinWithData
<1>5. CASE GuestRepeat
  <2>1. \/ Emit(GuestSegment(una, << >>, TRUE))
        \/ Emit(GuestSegment(una, <<(una - GuestIsn) % Modulus>>, FALSE))
    BY <1>5 DEF GuestRepeat
  <2>2. <<(una - GuestIsn) % Modulus>> \in Seq(Nat)
    <3>1. una - GuestIsn \in Int /\ Modulus \in Nat \ {0} /\ una \in Int /\ GuestIsn \in Int
      BY <1>0, WordSize DEF Numbers
    <3>2. \A y \in Int, m \in Nat \ {0} : y % m \in Nat
      OBVIOUS
    <3>3. (una - GuestIsn) % Modulus \in Nat
      BY <3>1, <3>2
    <3> QED
      BY <3>3
  <2> QED
    BY <1>0, <1>1, <1>5, <2>1, <2>2 DEF GuestRepeat
<1>6. CASE GuestReset
  <2> DEFINE x == [Nothing EXCEPT !.rst = TRUE, !.seq = snd]
  <2>1. IsSegment(x, FALSE, FALSE, TRUE, snd, 0, << >>)
    BY <1>0, GuestSegments
  <2>2. Emit(x)
    BY <1>6 DEF GuestReset
  <2> HIDE DEF x
  <2>3. Says(x) /\ ~x.syn /\ ~Plain(x)
    BY <2>1, <2>2, EmitSays DEF IsSegment, Plain
  <2> QED
    BY <1>6, <2>3 DEF GuestReset
<1>7. ~GuestConnect
  BY DEF GuestConnect
<1> QED
  BY <1>2, <1>3, <1>4, <1>5, <1>6, <1>7 DEF Guest

Fits(s) == ~s.syn /\ s.seq = rcv

LEMMA GuestTakes ==
    ASSUME Types, Types', guest \in {"open", "reset"}, GuestReceive, NEW s, s = toGuest[1]
    PROVE  /\ guest' = "open" /\ s \in Segments /\ 1 \in 1 .. Len(toGuest) /\ Len(toGuest) \in Nat
           /\ Len(toGuest') = Len(toGuest) - 1
           /\ \A i \in 1 .. Len(toGuest') : toGuest'[i] = toGuest[i + 1] /\ i + 1 \in 1 .. Len(toGuest)
           /\ Fits(s) => /\ rcv' = Plus(rcv, Len(s.data) + (IF s.fin THEN 1 ELSE 0))
                         /\ guestGot' = guestGot \o s.data
                         /\ guestEof' <=> guestEof \/ s.fin
           /\ ~Fits(s) => rcv' = rcv /\ guestGot' = guestGot /\ (guestEof' <=> guestEof)
           /\ Carries(s) => \E x : Says(x) /\ ~x.syn /\ x.ack = rcv'
           /\ ~Carries(s) => toProxy' = toProxy
           /\ UNCHANGED <<link, tasks, proxy, host, syns>>
<1>1. /\ toGuest # << >> /\ toGuest' = Tail(toGuest) /\ guest = "open"
      /\ UNCHANGED <<link, tasks, proxy, host, syns>>
  BY DEF GuestReceive
<1>2. /\ Head(toGuest) = s /\ s \in Segments /\ 1 \in 1 .. Len(toGuest) /\ Len(toGuest) \in Nat
      /\ Len(toGuest') = Len(toGuest) - 1
      /\ \A i \in 1 .. Len(toGuest') : toGuest'[i] = toGuest[i + 1] /\ i + 1 \in 1 .. Len(toGuest)
  BY <1>1, Received DEF Types
<1>3. guest # "connecting"
  BY <1>1
<1> DEFINE h == Head(toGuest)
           opens == guest = "connecting" /\ h.syn
           fits == guest # "connecting" /\ ~h.syn /\ h.seq = rcv
<1>4. /\ guest' = (IF opens THEN "open" ELSE guest)
      /\ rcv' = (IF opens THEN Plus(h.seq, 1)
                 ELSE IF fits THEN Plus(rcv, Len(h.data) + (IF h.fin THEN 1 ELSE 0)) ELSE rcv)
      /\ guestGot' = (IF fits THEN guestGot \o h.data ELSE guestGot)
      /\ guestEof' = (guestEof \/ (fits /\ h.fin))
      /\ IF Carries(h) THEN Emit([Nothing EXCEPT !.seq = snd, !.ack = rcv']) ELSE UNCHANGED toProxy
  BY Zenon DEF GuestReceive
<1>5. fits <=> Fits(s)
  BY <1>2, <1>3, Zenon DEF Fits
<1>6. ~opens
  BY <1>3
<1> HIDE DEF opens, fits
<1>7. /\ guest' = "open"
      /\ Fits(s) => /\ rcv' = Plus(rcv, Len(s.data) + (IF s.fin THEN 1 ELSE 0))
                    /\ guestGot' = guestGot \o s.data
                    /\ guestEof' <=> guestEof \/ s.fin
      /\ ~Fits(s) => rcv' = rcv /\ guestGot' = guestGot /\ (guestEof' <=> guestEof)
  <2> HIDE DEF h
  <2>1. h = s
    BY <1>2 DEF h
  <2> QED
    BY <1>1, <1>4, <1>5, <1>6, <2>1, Zenon
<1>8. /\ Carries(s) => Emit([Nothing EXCEPT !.seq = snd, !.ack = rcv'])
      /\ ~Carries(s) => toProxy' = toProxy
  BY <1>2, <1>4
<1>9. Carries(s) => \E x : Says(x) /\ ~x.syn /\ x.ack = rcv'
  <2> DEFINE x == [Nothing EXCEPT !.seq = snd, !.ack = rcv']
  <2>1. << >> \in Seq(Nat)
    OBVIOUS
  <2>2. snd \in Numbers /\ rcv' \in Numbers
    BY DEF Types
  <2>3. IsSegment(x, FALSE, FALSE, FALSE, snd, rcv', << >>)
    BY <2>1, <2>2, GuestSegments
  <2>4. Carries(s) => Emit(x)
    BY <1>8
  <2> HIDE DEF x
  <2>5. Carries(s) => Says(x) /\ ~x.syn /\ x.ack = rcv'
    BY <2>3, <2>4, EmitSays DEF IsSegment
  <2> QED
    BY <2>5
<1> QED
  BY <1>1, <1>2, <1>7, <1>8, <1>9, Zenon

LEMMA StuckGuest ==
    ASSUME Types, Types', guest \in {"open", "reset"}, Stuck, Guest
    PROVE  Stuck' /\ server_next' = server_next
<1>0. /\ \A i \in 1 .. Len(toGuest) : Bare(toGuest[i])
      /\ rcv = Plus(ServerIsn, 1) /\ guestGot = << >> /\ ~guestEof /\ ~fin_sent
      /\ server_unacked_end = server_next
      /\ \A i \in 1 .. Len(toProxy) : Plain(toProxy[i]) => toProxy[i].ack = rcv
  BY Zenon DEF Stuck, Bare
<1>1. ASSUME UNCHANGED <<rcv, guestGot, proxy>>, ~guestEof',
             \A i \in 1 .. Len(toGuest') : Bare(toGuest'[i]),
             toProxy' = toProxy \/ \E x : Says(x) /\ (Plain(x) => x.ack = rcv)
      PROVE  Stuck' /\ server_next' = server_next
  <2>1. \A i \in 1 .. Len(toProxy') : Plain(toProxy'[i]) => toProxy'[i].ack = rcv
    BY <1>0, <1>1, Zenon DEF Says
  <2>2. ~fin_sent'
    BY <1>0, <1>1, Zenon DEF proxy
  <2>3. server_unacked_end' = server_next' /\ server_next' = server_next
    BY <1>0, <1>1 DEF proxy
  <2> QED
    BY <1>0, <1>1, <2>1, <2>2, <2>3, Zenon DEF Stuck, Bare
<1>2. CASE GuestReceive
  <2> DEFINE s == toGuest[1]
  <2>1. /\ s \in Segments /\ 1 \in 1 .. Len(toGuest)
        /\ \A i \in 1 .. Len(toGuest') : toGuest'[i] = toGuest[i + 1] /\ i + 1 \in 1 .. Len(toGuest)
        /\ Fits(s) => /\ rcv' = Plus(rcv, Len(s.data) + (IF s.fin THEN 1 ELSE 0))
                      /\ guestGot' = guestGot \o s.data
                      /\ guestEof' <=> guestEof \/ s.fin
        /\ ~Fits(s) => rcv' = rcv /\ guestGot' = guestGot /\ (guestEof' <=> guestEof)
        /\ Carries(s) => \E x : Says(x) /\ ~x.syn /\ x.ack = rcv'
        /\ ~Carries(s) => toProxy' = toProxy
        /\ UNCHANGED proxy
    BY <1>2, GuestTakes
  <2> HIDE DEF s
  <2>2. ~s.fin /\ s.data = << >>
    BY <1>0, <2>1 DEF s, Bare
  <2>3. ~guestEof'
    BY <1>0, <2>1, <2>2, Zenon
  <2>4. rcv' = rcv
    <3>1. Fits(s) => rcv' = Plus(rcv, Len(<< >>) + (IF FALSE THEN 1 ELSE 0))
      BY <2>1, <2>2
    <3>2. Len(<< >>) + (IF FALSE THEN 1 ELSE 0) = 0
      OBVIOUS
    <3>3. Plus(rcv, 0) = rcv
      BY PlusZero DEF Types
    <3> QED
      BY <2>1, <3>1, <3>2, <3>3
  <2>5. guestGot' = guestGot
    <3>1. Fits(s) => guestGot' = << >> \o << >>
      BY <1>0, <2>1, <2>2, Zenon
    <3>2. << >> \o << >> = << >>
      OBVIOUS
    <3> QED
      BY <1>0, <2>1, <3>1, <3>2, Zenon
  <2>6. \A i \in 1 .. Len(toGuest') : Bare(toGuest'[i])
    BY <1>0, <2>1
  <2>7. toProxy' = toProxy \/ \E x : Says(x) /\ (Plain(x) => x.ack = rcv)
    BY <2>1, <2>4, Zenon
  <2> QED
    BY <1>1, <2>1, <2>3, <2>4, <2>5, <2>6, <2>7
<1>3. CASE ~GuestReceive
  <2>1. /\ \E x : Says(x) /\ ~x.syn /\ (Plain(x) => x.ack = rcv)
        /\ UNCHANGED <<toGuest, proxy, rcv, guestGot, guestEof>>
    BY <1>3, GuestSays
  <2>2. ~guestEof'
    BY <1>0, <2>1, Zenon
  <2> QED
    BY <1>0, <1>1, <2>1, <2>2
<1> QED
  BY <1>2, <1>3

LEMMA SynsFirstStep ==
    ASSUME Types, Types', Flags, Up, guest \in {"open", "reset"}, Upward, SynsFirst,
           syns > 1 => Stuck, FrameTask \/ ReadTask \/ Guest \/ UNCHANGED vars
    PROVE  SynsFirst'
<1>1. PICK a \in 0 .. Len(toProxy) :
        /\ \A i \in 1 .. Len(toProxy) : toProxy[i].syn <=> i =< a
        /\ \A i \in 1 .. Len(toProxy) : toProxy[i].syn => Asks(toProxy[i])
        /\ a < syns
        /\ a > 0 => hostGot = << >> /\ guest_next = Plus(GuestIsn, 1) /\ handler = "idle"
        /\ syns > 1 => server_next = Plus(ServerIsn, syns - a)
  BY Zenon DEF SynsFirst
<1>2. a \in Nat /\ Len(toProxy) \in Nat /\ syns \in Nat /\ syns =< MaxSyns /\ a =< Len(toProxy)
  BY WordSize DEF Types
\* The steps of the guest and of the reader leave the SYNs alone.
<1>3. ASSUME toProxy' = toProxy \/ \E x : Says(x) /\ ~x.syn,
             UNCHANGED <<syns, hostGot, guest_next, handler>>,
             syns > 1 => server_next' = server_next
      PROVE  SynsFirst'
  <2>1. a \in 0 .. Len(toProxy')
    BY <1>2, <1>3 DEF Says
  <2>2. \A i \in 1 .. Len(toProxy') :
          \/ i \in 1 .. Len(toProxy) /\ toProxy'[i] = toProxy[i]
          \/ i = Len(toProxy) + 1 /\ ~toProxy'[i].syn
    BY <1>3, Zenon DEF Says
  <2>3. \A i \in 1 .. Len(toProxy') : toProxy'[i].syn <=> i =< a
    <3>1. \A i \in 1 .. Len(toProxy') : i = Len(toProxy) + 1 => ~(i =< a)
      BY <1>2
    <3> QED
      BY <1>1, <2>2, <3>1, Zenon
  <2>4. \A i \in 1 .. Len(toProxy') : toProxy'[i].syn => Asks(toProxy'[i])
    BY <1>1, <2>2, Zenon
  <2>5. /\ a < syns'
        /\ a > 0 => hostGot' = << >> /\ guest_next' = Plus(GuestIsn, 1) /\ handler' = "idle"
        /\ syns' > 1 => server_next' = Plus(ServerIsn, syns' - a)
    BY <1>1, <1>3
  <2> QED
    BY <2>1, <2>3, <2>4, <2>5, Zenon DEF SynsFirst
<1>4. CASE HandleSyn
  <2>1. /\ Ready /\ Takes /\ Segment.syn /\ guest_next' = Plus(Segment.seq, 1)
        /\ UNCHANGED <<host, peer>>
        /\ handler' = handler
    BY <1>4 DEF HandleSyn, Upward
  <2>2. /\ Segment = toProxy[1] /\ Len(toProxy') = Len(toProxy) - 1
        /\ \A i \in 1 .. Len(toProxy') : toProxy'[i] = toProxy[i + 1] /\ i + 1 \in 1 .. Len(toProxy)
        /\ 1 \in 1 .. Len(toProxy)
    BY <2>1, FirstSegment, Taken DEF Ready, Types
  <2>3. a > 0 /\ guest_next' = Plus(GuestIsn, 1)
    <3>1. Asks(toProxy[1]) /\ 1 =< a
      BY <1>1, <2>1, <2>2
    <3> QED
      BY <1>2, <2>1, <2>2, <3>1 DEF Asks
  <2>4. a - 1 \in 0 .. Len(toProxy') /\ a - 1 < syns /\ syns > 1
    BY <1>1, <1>2, <2>2, <2>3
  <2>5. \A i \in 1 .. Len(toProxy') : toProxy'[i].syn <=> i =< a - 1
    <3>1. \A i \in 1 .. Len(toProxy') : toProxy'[i].syn <=> i + 1 =< a
      BY <1>1, <2>2, Zenon
    <3>2. \A i \in 1 .. Len(toProxy') : i + 1 =< a <=> i =< a - 1
      BY <1>2
    <3> QED
      BY <3>1, <3>2, Zenon
  <2>6. \A i \in 1 .. Len(toProxy') : toProxy'[i].syn => Asks(toProxy'[i])
    BY <1>1, <2>2, Zenon
  <2>7. hostGot' = << >> /\ handler' = "idle" /\ syns' = syns
    BY <1>1, <2>1, <2>3 DEF host, peer
  <2>8. server_next' = Plus(ServerIsn, syns' - (a - 1))
    <3>1. server_next' = Plus(server_next, 1)
      BY <1>4, <2>4, StuckFrame DEF FrameTask
    <3>2. syns - a \in Numbers /\ 1 \in Numbers /\ syns - a + 1 \in Numbers
          /\ syns - a + 1 = syns - (a - 1)
      BY <1>1, <1>2, WordSize DEF Numbers
    <3>3. Plus(Plus(ServerIsn, syns - a), 1) = Plus(ServerIsn, syns - a + 1)
      BY <3>2, PlusPlus, WordSize
    <3> QED
      BY <1>1, <2>4, <2>7, <3>1, <3>2, <3>3
  <2> DEFINE b == a - 1
  <2>9. /\ b \in 0 .. Len(toProxy') /\ b < syns'
        /\ \A i \in 1 .. Len(toProxy') : toProxy'[i].syn <=> i =< b
        /\ server_next' = Plus(ServerIsn, syns' - b)
    BY <2>4, <2>5, <2>7, <2>8
  <2> HIDE DEF b
  <2> QED
    BY <2>3, <2>6, <2>7, <2>9, Zenon DEF SynsFirst
<1>5. CASE FrameTask /\ ~HandleSyn
  <2>1. ~ConnectHost
    BY DEF ConnectHost, Upward, Handling
  <2>2. /\ \A i \in 1 .. Len(toProxy) : ~toProxy[i].syn
        /\ syns > 1 => server_next = Plus(ServerIsn, syns)
        /\ Within(toProxy', toProxy) /\ syns' = syns
    BY <1>5, <2>1, SynsAnswered
  <2>3. syns > 1 => server_next' = server_next
    BY <1>5, StuckFrame
  <2>4. \A i \in 1 .. Len(toProxy') : ~toProxy'[i].syn
    BY <2>2 DEF Within
  <2>5. /\ 0 \in 0 .. Len(toProxy') /\ 0 < syns' /\ ~(0 > 0)
        /\ syns' > 1 => server_next' = Plus(ServerIsn, syns' - 0)
    <3>1. Len(toProxy') \in Nat
      BY DEF Types
    <3>2. syns - 0 = syns /\ 0 < syns
      BY <1>1, <1>2
    <3> QED
      BY <2>2, <2>3, <3>1, <3>2
  <2>6. \A i \in 1 .. Len(toProxy') : ~(i =< 0)
    OBVIOUS
  <2> QED
    BY <2>4, <2>5, <2>6, Zenon DEF SynsFirst
<1>6. CASE ReadTask \/ UNCHANGED vars
  <2>1. UNCHANGED <<toProxy, syns, hostGot, guest_next, handler>>
    BY <1>6, ReadEffect DEF Flags, vars, tasks, proxy, host, peer
  <2>2. syns > 1 => server_next' = server_next
    BY <1>6, StuckOthers
  <2> QED
    BY <1>3, <2>1, <2>2
<1>7. CASE Guest
  <2>1. syns > 1 => server_next' = server_next
    BY <1>7, StuckGuest
  <2>2. CASE GuestReceive
    <3>1. /\ toProxy' = toProxy \/ \E x : Says(x) /\ ~x.syn
          /\ UNCHANGED <<tasks, proxy, host, syns>>
      BY <2>2, GuestTakes
    <3> QED
      BY <1>3, <2>1, <3>1 DEF tasks, proxy, host
  <2>3. CASE ~GuestReceive
    <3>1. /\ \E x : Says(x) /\ ~x.syn
          /\ UNCHANGED <<tasks, proxy, host, syns>>
      BY <1>7, <2>3, GuestSays
    <3> QED
      BY <1>3, <2>1, <3>1 DEF tasks, proxy, host
  <2> QED
    BY <2>2, <2>3
<1> QED
  BY <1>4, <1>5, <1>6, <1>7

-----------------------------------------------------------------------------
(***************************************************************************)
(* From the host to the guest after one SYN.                               *)
(***************************************************************************)

LEMMA SegmentData ==
    ASSUME NEW s \in Segments
    PROVE  /\ s.data \in Seq(Nat) /\ Len(s.data) \in Nat /\ s.fin \in BOOLEAN
           /\ s.seq \in Numbers /\ s.ack \in Numbers
<1>1. s.data \in Seq(Nat) /\ s.seq \in Numbers /\ s.ack \in Numbers
  BY DEF Segments
<1>2. s.fin \in BOOLEAN
  BY DEF Segments
<1> QED
  BY <1>1, <1>2, LenProperties

\* Nothing that the guest has to acknowledge has been sent to it.
AddsBare ==
    /\ \A i \in 1 .. Len(toGuest) : i \in 1 .. Len(toGuest') /\ toGuest'[i] = toGuest[i]
    /\ \A i \in 1 .. Len(toGuest') : i \in 1 .. Len(toGuest) \/ ~Carries(toGuest'[i])

LEMMA BareAdded ==
    ASSUME toGuest' = toGuest \/ \E x : Grows(x) /\ ~Carries(x)
    PROVE  AddsBare
<1>1. CASE toGuest' = toGuest
  BY <1>1 DEF AddsBare
<1>2. ASSUME NEW x, Grows(x), ~Carries(x) PROVE AddsBare
  <2>1. /\ \A i \in 1 .. Len(toGuest) : i \in 1 .. Len(toGuest')
        /\ \A i \in 1 .. Len(toGuest') : i \in 1 .. Len(toGuest) \/ i = Len(toGuest) + 1
    BY <1>2 DEF Grows
  <2> QED
    BY <1>2, <2>1, Zenon DEF Grows, AddsBare
<1> QED
  BY <1>1, <1>2

\* The acknowledgements while the proxy handles segments and sends nothing new.
LEMMA AcksKept ==
    ASSUME Acks, Within(toProxy', toProxy), server_next' = server_next
    PROVE  Acks'
<1>1. PICK m \in {0, 1} :
        /\ Len(toProxy) \in Nat /\ Len(toProxy') = Len(toProxy) - m
        /\ \A i \in 1 .. Len(toProxy') : i + m \in 1 .. Len(toProxy) /\ toProxy'[i] = toProxy[i + m]
  BY DEF Within
<1>2. \A i \in 1 .. Len(toProxy') : Plain(toProxy'[i]) =>
        \E d \in 0 .. ChunkSize : server_next' = Plus(toProxy'[i].ack, d)
  BY <1>1, Zenon DEF Acks
<1>3. \A i, j \in 1 .. Len(toProxy') : i < j => i + m < j + m
  BY <1>1
<1>4. \A i, j \in 1 .. Len(toProxy') :
        i < j /\ Plain(toProxy'[i]) /\ Plain(toProxy'[j]) /\ toProxy'[i].ack = server_next' =>
          toProxy'[j].ack = server_next'
  BY <1>1, <1>3, Zenon DEF Acks
<1> QED
  BY <1>2, <1>4, Zenon DEF Acks

\* The guest's next acknowledgement.
LEMMA AcksSaid ==
    ASSUME Acks, server_next' = server_next, NEW x, Says(x),
           Plain(x) => \E d \in 0 .. ChunkSize : server_next = Plus(x.ack, d),
           \A i \in 1 .. Len(toProxy) :
             Plain(x) /\ Plain(toProxy[i]) /\ toProxy[i].ack = server_next => x.ack = server_next
    PROVE  Acks'
<1>1. \A i \in 1 .. Len(toProxy') :
        \/ i \in 1 .. Len(toProxy) /\ toProxy'[i] = toProxy[i]
        \/ i = Len(toProxy) + 1 /\ toProxy'[i] = x
  BY Zenon DEF Says
<1>2. \A i \in 1 .. Len(toProxy') : Plain(toProxy'[i]) =>
        \E d \in 0 .. ChunkSize : server_next' = Plus(toProxy'[i].ack, d)
  BY <1>1, Zenon DEF Acks
<1>3. \A i, j \in 1 .. Len(toProxy') : i < j => i \in 1 .. Len(toProxy)
  BY DEF Says
<1>4. \A i, j \in 1 .. Len(toProxy') :
        i < j /\ Plain(toProxy'[i]) /\ Plain(toProxy'[j]) /\ toProxy'[i].ack = server_next' =>
          toProxy'[j].ack = server_next'
  BY <1>1, <1>3, Zenon DEF Acks, Says
<1> QED
  BY <1>2, <1>4, Zenon DEF Acks

\* The steps that neither send nor receive anything that has to be acknowledged.
LEMMA FlowKept ==
    ASSUME Types, Types', Flow, Within(toProxy', toProxy), AddsBare,
           UNCHANGED <<rcv, server_next, server_unacked_end, guestGot>>,
           fin_sent' = fin_sent, guestEof' = guestEof,
           host_eof => host_eof', fin_sent => host_pending' = host_pending,
           \A n \in Nat : n + Len(host_pending) = hostSent /\ Continues(host_pending, n) =>
                            n + Len(host_pending') = hostSent' /\ Continues(host_pending', n)
    PROVE  Flow'
<1>0. /\ Len(guestGot) \in Nat /\ toGuest \in Seq(Segments)
      /\ \A s \in Segments : Len(s.data) \in Nat
      /\ \A i \in 1 .. Len(toGuest) : toGuest[i] \in Segments
  BY SegmentData, ElementOfSeq DEF Types
<1>1. Counts(guestGot')
  BY DEF Flow, Counts
<1>2. \A i \in 1 .. Len(toGuest') : ~toGuest'[i].syn
  BY Zenon DEF Flow, AddsBare, Carries
<1>3. Acks'
  BY AcksKept DEF Flow
<1>4. ASSUME NEW n, \A i \in 1 .. Len(toProxy) : Plain(toProxy[i]) => toProxy[i].ack = n
      PROVE  \A i \in 1 .. Len(toProxy') : Plain(toProxy'[i]) => toProxy'[i].ack = n
  BY <1>4 DEF Within
<1>5. CASE Arrived
  <2>1. \A i \in 1 .. Len(toGuest') : ~Carries(toGuest'[i])
    BY <1>5, Zenon DEF Arrived, AddsBare
  <2>2. server_unacked_end' = None =>
          \A i \in 1 .. Len(toProxy') : Plain(toProxy'[i]) => toProxy'[i].ack = server_next
    BY <1>4, <1>5, Zenon DEF Arrived
  <2>3. Len(guestGot) + Len(host_pending') = hostSent' /\ Continues(host_pending', Len(guestGot))
    BY <1>0, <1>5, Zenon DEF Arrived
  <2>4. /\ fin_sent' <=> guestEof'
        /\ fin_sent' => host_eof' /\ host_pending' = << >>
    BY <1>5, Zenon DEF Arrived
  <2>5. rcv' = server_next' /\ server_unacked_end' \in {None, server_next'}
        /\ guestGot' = guestGot /\ server_next' = server_next
    BY <1>5 DEF Arrived
  <2>6. Arrived'
    BY <2>1, <2>2, <2>3, <2>4, <2>5, Zenon DEF Arrived
  <2> QED
    BY <1>1, <1>2, <1>3, <2>6, Zenon DEF Flow
<1>6. ASSUME NEW c \in 1 .. Len(toGuest), Flying(c) PROVE Flow'
  <2> DEFINE s == toGuest[c]
  <2>1. /\ \A i \in 1 .. Len(toGuest) : Carries(toGuest[i]) <=> i = c
        /\ ~s.syn /\ s.seq = rcv /\ Len(s.data) =< ChunkSize
        /\ server_next = Plus(rcv, Len(s.data) + (IF s.fin THEN 1 ELSE 0))
        /\ server_unacked_end = server_next
        /\ \A i \in 1 .. Len(toProxy) : Plain(toProxy[i]) => toProxy[i].ack = rcv
        /\ s.fin <=> fin_sent
        /\ fin_sent => host_eof /\ host_pending = << >> /\ s.data = << >>
        /\ ~guestEof
        /\ Len(guestGot) + Len(s.data) + Len(host_pending) = hostSent
        /\ Continues(s.data, Len(guestGot))
        /\ Continues(host_pending, Len(guestGot) + Len(s.data))
    BY <1>6, Zenon DEF Flying
  <2>2. c \in 1 .. Len(toGuest') /\ toGuest'[c] = s
    BY DEF AddsBare
  <2>3. \A i \in 1 .. Len(toGuest') : Carries(toGuest'[i]) <=> i = c
    BY <2>1, <2>2, Zenon DEF AddsBare
  <2>4. Len(guestGot) + Len(s.data) \in Nat
    <3>1. Len(s.data) \in Nat
      BY <1>0
    <3> QED
      BY <1>0, <3>1
  <2>5. \A i \in 1 .. Len(toProxy') : Plain(toProxy'[i]) => toProxy'[i].ack = rcv
    BY <1>4, <2>1, Zenon
  <2>6. /\ Len(guestGot) + Len(s.data) + Len(host_pending') = hostSent'
        /\ Continues(host_pending', Len(guestGot) + Len(s.data))
    BY <2>1, <2>4, Zenon
  <2>7. rcv' = rcv /\ server_next' = server_next /\ server_unacked_end' = server_unacked_end
        /\ guestGot' = guestGot
    OBVIOUS
  <2>8. /\ s.fin <=> fin_sent'
        /\ fin_sent' => host_eof' /\ host_pending' = << >> /\ s.data = << >>
        /\ ~guestEof'
    BY <2>1, Zenon
  <2> HIDE DEF s
  <2>9. Flying(c)'
    BY <2>1, <2>2, <2>3, <2>5, <2>6, <2>7, <2>8, Zenon DEF Flying
  <2> QED
    BY <1>1, <1>2, <1>3, <2>2, <2>9, Zenon DEF Flow
<1> QED
  BY <1>5, <1>6 DEF Flow

\* A segment that the guest has to acknowledge uses up a number at least.
LEMMA FlyingFar ==
    ASSUME Types, NEW c \in 1 .. Len(toGuest), Flying(c)
    PROVE  server_next # rcv
<1> DEFINE s == toGuest[c]
           n == Len(s.data) + (IF s.fin THEN 1 ELSE 0)
<1>1. s \in Segments /\ rcv \in Numbers
  BY ElementOfSeq DEF Types
<1>2. Carries(s) /\ ~s.syn /\ server_next = Plus(rcv, n) /\ Len(s.data) =< ChunkSize
  BY Zenon DEF Flying
<1>3. s.data \in Seq(Nat) /\ Len(s.data) \in Nat /\ (s.data = << >> <=> Len(s.data) = 0)
  BY <1>1, SegmentData, EmptySeq
<1>4. n \in Nat /\ n > 0 /\ n =< ChunkSize + 1
  <2> DEFINE m == Len(s.data)
  <2>0. m \in Nat /\ m =< ChunkSize /\ ChunkSize \in Nat
    BY <1>2, <1>3, WordSize, Zenon
  <2>1. CASE s.fin
    <3>1. n = m + 1
      BY <2>1
    <3> HIDE DEF n, m
    <3> QED
      BY <2>0, <3>1
  <2>2. CASE ~s.fin
    <3>1. n = m
      BY <1>3, <2>2
    <3>2. m # 0
      BY <1>2, <1>3, <2>2, Zenon DEF Carries
    <3> HIDE DEF n, m
    <3> QED
      BY <2>0, <3>1, <3>2
  <2> QED
    BY <2>1, <2>2
<1> HIDE DEF s, n
<1>5. n \in Numbers /\ 0 \in Numbers
  BY <1>4, WordSize DEF Numbers
<1>6. Plus(rcv, n) # Plus(rcv, 0)
  BY <1>1, <1>4, <1>5, PlusInjective
<1> QED
  BY <1>1, <1>2, <1>6, PlusZero

\* handle_tcp takes for acknowledged only what has arrived.
LEMMA AckArrived ==
    ASSUME Types, Flow, Ordinary, Acknowledges(Segment.ack)
    PROVE  /\ Arrived
           /\ \A i \in 1 .. Len(toProxy) : Plain(toProxy[i]) => toProxy[i].ack = server_next
<1>1. Ready /\ Plain(Segment) /\ server_unacked_end # None
  BY DEF Ordinary, Plain, Acknowledges
<1>2. /\ Segment = toProxy[1] /\ Segment \in Segments /\ 1 \in 1 .. Len(toProxy)
      /\ Len(toProxy) \in Nat
  BY <1>1, FirstSegment
<1>3. server_unacked_end = server_next
  BY <1>1, Zenon DEF Flow, Arrived, Flying
<1>4. PICK d \in 0 .. ChunkSize : server_next = Plus(Segment.ack, d)
  BY <1>1, <1>2, Zenon DEF Flow, Acks
<1>5. d \in Nat /\ 2 * d =< Modulus /\ Segment.ack \in Numbers
  BY <1>2, SegmentData, WordSize
<1>6. d = 0
  BY <1>3, <1>4, <1>5, AckDecides
<1>7. Segment.ack = server_next
  BY <1>4, <1>5, <1>6, PlusZero
<1>8. \A i \in 1 .. Len(toProxy) : i = 1 \/ 1 < i
  OBVIOUS
<1>9. \A i \in 1 .. Len(toProxy) : Plain(toProxy[i]) => toProxy[i].ack = server_next
  BY <1>1, <1>2, <1>7, <1>8, Zenon DEF Flow, Acks
<1>10. ASSUME NEW c \in 1 .. Len(toGuest), Flying(c) PROVE FALSE
  <2>1. Segment.ack = rcv
    BY <1>1, <1>2, <1>10, Zenon DEF Flying
  <2> QED
    BY <1>7, <1>10, <2>1, FlyingFar
<1> QED
  BY <1>9, <1>10 DEF Flow

\* A segment that the guest has to acknowledge goes out once nothing is on the way.
LEMMA FlowLaunch ==
    ASSUME Types, Types', Flow, Arrived, NEW x, NEW fin \in BOOLEAN, NEW d \in Seq(Nat),
           Grows(x), IsSegment(x, FALSE, fin, FALSE, server_next, guest_next, d),
           fin \/ d # << >>, fin => d = << >> /\ host_eof' /\ host_pending' = << >>,
           Len(d) =< ChunkSize, ~guestEof, ~guestEof', fin_sent' = fin,
           server_next' = Plus(server_next, Len(d) + (IF fin THEN 1 ELSE 0)),
           server_unacked_end' = server_next', UNCHANGED <<rcv, guestGot>>,
           \A i \in 1 .. Len(toProxy') : Plain(toProxy'[i]) => toProxy'[i].ack = server_next,
           Len(guestGot) + Len(d) + Len(host_pending') = hostSent',
           Continues(d, Len(guestGot)), Continues(host_pending', Len(guestGot) + Len(d))
    PROVE  Flow'
<1> DEFINE n == Len(d) + (IF fin THEN 1 ELSE 0)
<1>1. x.fin = fin /\ x.syn = FALSE /\ x.data = d /\ x.seq = server_next
  BY Zenon DEF IsSegment
<1>2. PICK c \in 1 .. Len(toGuest') :
        /\ toGuest'[c] = x
        /\ \A i \in 1 .. Len(toGuest') : (i \in 1 .. Len(toGuest) /\ toGuest'[i] = toGuest[i] /\ i # c)
                                           \/ i = c
  <2> DEFINE e == Len(toGuest) + 1
  <2>1. e \in 1 .. Len(toGuest') /\ toGuest'[e] = x
    BY DEF Grows
  <2>2. \A i \in 1 .. Len(toGuest') : (i \in 1 .. Len(toGuest) /\ i # e) \/ i = e
    BY DEF Grows
  <2>3. \A i \in 1 .. Len(toGuest) : toGuest'[i] = toGuest[i]
    BY DEF Grows
  <2> HIDE DEF e
  <2> QED
    BY <2>1, <2>2, <2>3, Zenon
<1>3. \A i \in 1 .. Len(toGuest') : ~toGuest'[i].syn
  BY <1>1, <1>2, Zenon DEF Flow
<1>4. \A i \in 1 .. Len(toGuest') : Carries(toGuest'[i]) <=> i = c
  BY <1>1, <1>2, Zenon DEF Arrived, Carries
<1>5. rcv' = server_next /\ guestGot' = guestGot
  BY DEF Arrived
<1>6. n \in 0 .. ChunkSize
  <2>1. Len(d) \in Nat
    BY LenProperties
  <2>2. CASE fin
    <3>1. Len(d) = 0
      BY <2>2
    <3>2. n = 1
      BY <2>2, <3>1
    <3> QED
      BY <3>2, WordSize
  <2>3. CASE ~fin
    <3>1. n = Len(d)
      BY <2>1, <2>3
    <3> QED
      BY <2>1, <3>1, WordSize
  <2> QED
    BY <2>2, <2>3
<1>7. Flying(c)'
  <2>1. server_next' = Plus(rcv', Len(d) + (IF fin THEN 1 ELSE 0))
    BY <1>5, Zenon
  <2>2. \A i \in 1 .. Len(toProxy') : Plain(toProxy'[i]) => toProxy'[i].ack = rcv'
    BY <1>5, Zenon
  <2> DEFINE y == toGuest'[c]
  <2>3. y = x
    BY <1>2
  <2> HIDE DEF y
  <2>4. /\ ~y.syn /\ y.seq = rcv' /\ Len(y.data) =< ChunkSize
        /\ server_next' = Plus(rcv', Len(y.data) + (IF y.fin THEN 1 ELSE 0))
        /\ y.fin <=> fin_sent'
        /\ fin_sent' => host_eof' /\ host_pending' = << >> /\ y.data = << >>
    BY <1>1, <1>5, <2>1, <2>3, Zenon
  <2>5. /\ Len(guestGot') + Len(y.data) + Len(host_pending') = hostSent'
        /\ Continues(y.data, Len(guestGot'))
        /\ Continues(host_pending', Len(guestGot') + Len(y.data))
    BY <1>1, <1>5, <2>3, Zenon
  <2> QED
    BY <1>4, <2>2, <2>4, <2>5, Zenon DEF Flying, y
<1>8. Acks'
  <2> HIDE DEF n
  <2>1. server_next' = Plus(server_next, n)
    BY DEF n
  <2>2. \A i \in 1 .. Len(toProxy') : Plain(toProxy'[i]) =>
          \E k \in 0 .. ChunkSize : server_next' = Plus(toProxy'[i].ack, k)
    BY <1>6, <2>1, Zenon
  <2>3. \A i, j \in 1 .. Len(toProxy') :
          i < j /\ Plain(toProxy'[i]) /\ Plain(toProxy'[j]) /\ toProxy'[i].ack = server_next' =>
            toProxy'[j].ack = server_next'
    OBVIOUS
  <2> QED
    BY <2>2, <2>3, Zenon DEF Acks
<1>9. Counts(guestGot')
  BY <1>5 DEF Flow, Counts
<1> QED
  BY <1>2, <1>3, <1>7, <1>8, <1>9, Zenon DEF Flow

\* send_host_pending when nothing is on the way.
LEMMA FlowSends ==
    ASSUME Types, Types', Flags, Up, Flow, Arrived, Within(toProxy', toProxy),
           \A i \in 1 .. Len(toProxy) : Plain(toProxy[i]) => toProxy[i].ack = server_next,
           NEW pending \in Seq(Nat), NEW eof \in BOOLEAN, SendHostPending(None, pending, eof),
           host_eof' = eof, fin_sent => pending = << >> /\ eof,
           Len(guestGot) + Len(pending) = hostSent', Continues(pending, Len(guestGot)),
           UNCHANGED <<rcv, guestGot>>, guestEof' = guestEof
    PROVE  Flow'
<1>0. /\ \A i \in 1 .. Len(toProxy') : Plain(toProxy'[i]) => toProxy'[i].ack = server_next
      /\ (fin_sent <=> guestEof) /\ fin_sent \in BOOLEAN /\ guestEof \in BOOLEAN
  <2>1. \A i \in 1 .. Len(toProxy') : Plain(toProxy'[i]) => toProxy'[i].ack = server_next
    BY DEF Within
  <2>2. (fin_sent <=> guestEof) /\ fin_sent \in BOOLEAN /\ guestEof \in BOOLEAN
    BY Zenon DEF Arrived, Flags
  <2> QED
    BY <2>1, <2>2
<1>1. CASE Holds(None, pending, eof)
  <2>1. /\ host_pending' = pending /\ server_unacked_end' = None
        /\ toGuest' = toGuest /\ server_next' = server_next /\ fin_sent' = fin_sent
    BY <1>1, Zenon DEF Holds
  <2>2. /\ \A i \in 1 .. Len(toGuest') : ~Carries(toGuest'[i]) /\ ~toGuest'[i].syn
        /\ rcv' = server_next'
    BY <2>1 DEF Arrived, Flow
  <2>3. /\ fin_sent' <=> guestEof'
        /\ fin_sent' => host_eof' /\ host_pending' = << >>
    BY <1>0, <2>1, Zenon
  <2>4. guestGot' = guestGot /\ Counts(guestGot')
    BY DEF Flow, Counts
  <2>5. Len(guestGot') + Len(host_pending') = hostSent' /\ Continues(host_pending', Len(guestGot'))
    BY <2>1, <2>4, Zenon
  <2>6. server_unacked_end' \in {None, server_next'}
    BY <2>1
  <2>7. Acks'
    BY <2>1, AcksKept DEF Flow
  <2>8. Arrived'
    BY <1>0, <2>1, <2>2, <2>3, <2>5, <2>6, Zenon DEF Arrived
  <2> QED
    BY <2>2, <2>4, <2>7, <2>8, Zenon DEF Flow
<1>2. ASSUME EndGoes(None, pending, eof),
             NEW x, Grows(x), IsSegment(x, FALSE, TRUE, FALSE, server_next, guest_next, << >>)
      PROVE  Flow'
  <2>1. /\ pending = << >> /\ eof /\ ~fin_sent /\ host_pending' = << >> /\ fin_sent' = TRUE
        /\ server_next' = Plus(server_next, 1) /\ server_unacked_end' = server_next'
    BY <1>2, Zenon DEF EndGoes
  <2>2. << >> \in Seq(Nat) /\ TRUE \in BOOLEAN /\ Len(<< >>) = 0
        /\ Len(<< >>) + (IF TRUE THEN 1 ELSE 0) = 1
    <3>1. << >> \in Seq(Nat)
      OBVIOUS
    <3>2. Len(<< >>) = 0 /\ Len(<< >>) + (IF TRUE THEN 1 ELSE 0) = 1
      OBVIOUS
    <3> QED
      BY <3>1, <3>2
  <2>3. /\ Len(guestGot) + Len(<< >>) + Len(host_pending') = hostSent'
        /\ Continues(<< >>, Len(guestGot)) /\ Continues(host_pending', Len(guestGot) + Len(<< >>))
    <3>1. Len(guestGot) \in Nat /\ Len(guestGot) + 0 = Len(guestGot)
      BY DEF Types
    <3>2. Len(guestGot) + Len(<< >>) = Len(guestGot)
      BY <2>2, <3>1, Zenon
    <3> QED
      BY <2>1, <3>2, Zenon
  <2>4. ~guestEof /\ ~guestEof' /\ Len(<< >>) =< ChunkSize
    <3>1. ~guestEof /\ ~guestEof'
      BY <1>0, <2>1, Zenon
    <3> QED
      BY <2>2, <3>1, WordSize
  <2> DEFINE e == << >>
  <2>5. /\ IsSegment(x, FALSE, TRUE, FALSE, server_next, guest_next, e) /\ e \in Seq(Nat)
        /\ Len(guestGot) + Len(e) + Len(host_pending') = hostSent'
        /\ Continues(e, Len(guestGot)) /\ Continues(host_pending', Len(guestGot) + Len(e))
        /\ Len(e) =< ChunkSize /\ e = << >> /\ host_eof'
        /\ server_next' = Plus(server_next, Len(e) + (IF TRUE THEN 1 ELSE 0))
    BY <1>2, <2>1, <2>2, <2>3, <2>4, Zenon
  <2> HIDE DEF e
  <2> QED
    BY <1>0, <1>2, <2>1, <2>2, <2>4, <2>5, FlowLaunch
<1>3. ASSUME NEW d \in Seq(Nat), ChunkGoes(None, pending, d),
             NEW x, Grows(x), IsSegment(x, FALSE, FALSE, FALSE, server_next, guest_next, d)
      PROVE  Flow'
  <2>1. /\ d # << >> /\ Len(d) =< ChunkSize
        /\ host_pending' \in Seq(Nat) /\ Len(d) + Len(host_pending') = Len(pending)
        /\ \A k \in 1 .. Len(d) : d[k] = pending[k]
        /\ \A k \in 1 .. Len(host_pending') : host_pending'[k] = pending[Len(d) + k]
        /\ fin_sent' = fin_sent
        /\ server_next' = Plus(server_next, Len(d)) /\ server_unacked_end' = server_next'
    BY <1>3, Zenon DEF ChunkGoes
  <2>2. /\ Len(d) \in Nat /\ Len(d) > 0 /\ Len(host_pending') \in Nat /\ Len(guestGot) \in Nat
        /\ Len(pending) \in Nat /\ pending # << >>
    <3>1. Len(d) \in Nat /\ Len(d) > 0
      BY <2>1, LenProperties, EmptySeq
    <3>2. Len(host_pending') \in Nat /\ Len(guestGot) \in Nat /\ Len(pending) \in Nat
      BY <2>1, LenProperties DEF Types
    <3>3. Len(pending) # 0
      BY <2>1, <3>1, <3>2
    <3>4. pending # << >>
      BY <3>3
    <3> QED
      BY <3>1, <3>2, <3>4
  <2>3. ~fin_sent /\ fin_sent' = FALSE /\ ~guestEof /\ ~guestEof'
    BY <1>0, <2>1, <2>2, Zenon
  <2>4. /\ Len(guestGot) + Len(d) + Len(host_pending') = hostSent'
        /\ Len(d) + (IF FALSE THEN 1 ELSE 0) = Len(d)
    <3>1. Len(guestGot) + Len(pending) = hostSent'
      OBVIOUS
    <3> DEFINE g == Len(guestGot)
               l == Len(d)
               p == Len(host_pending')
    <3>2. g \in Nat /\ l \in Nat /\ p \in Nat /\ g + (l + p) = hostSent'
      BY <2>1, <2>2, <3>1, Zenon
    <3> HIDE DEF g, l, p
    <3>3. g + l + p = hostSent' /\ l + (IF FALSE THEN 1 ELSE 0) = l
      BY <3>2
    <3> QED
      BY <3>3 DEF g, l, p
  <2>5. Continues(d, Len(guestGot))
    <3>1. \A k \in 1 .. Len(d) : k \in 1 .. Len(pending)
      BY <2>1, <2>2
    <3> QED
      BY <2>1, <3>1, Zenon DEF Continues
  <2>6. Continues(host_pending', Len(guestGot) + Len(d))
    <3>1. \A k \in 1 .. Len(host_pending') :
            /\ Len(d) + k \in 1 .. Len(pending)
            /\ Len(guestGot) + (Len(d) + k) = Len(guestGot) + Len(d) + k
      <4>1. \A g, l, p \in Nat : \A k \in 1 .. p :
              l + k \in 1 .. l + p /\ g + (l + k) = g + l + k
        OBVIOUS
      <4>2. Len(pending) = Len(d) + Len(host_pending')
        BY <2>1
      <4> QED
        BY <2>2, <4>1, <4>2, Zenon
    <3> QED
      BY <2>1, <3>1, Zenon DEF Continues
  <2>7. server_next' = Plus(server_next, Len(d) + (IF FALSE THEN 1 ELSE 0))
    BY <2>1, <2>4, Zenon
  <2> QED
    BY <1>0, <1>3, <2>1, <2>3, <2>4, <2>5, <2>6, <2>7, FlowLaunch
<1> QED
  BY <1>1, <1>2, <1>3, PendingGrows

LEMMA FlowRead ==
    ASSUME Types, Types', Flags, Up, Flow, ReadTask
    PROVE  Flow'
<1>1. PICK pending \in Seq(Nat), eof \in BOOLEAN :
        /\ SendHostPending(server_unacked_end, pending, eof)
        /\ host_eof' = eof /\ (host_eof => eof)
        /\ \A n \in Nat : n + Len(host_pending) = hostSent /\ Continues(host_pending, n) =>
                            n + Len(pending) = hostSent' /\ Continues(pending, n)
  BY ReadEffect, Zenon DEF Flags
<1>2. UNCHANGED <<toProxy, peer>> /\ reader = "reading"
  BY ReadEffect DEF Flags
<1>3. rcv' = rcv /\ guestGot' = guestGot
  BY <1>2 DEF peer
<1>4. guestEof' = guestEof /\ ~fin_sent
  <2>1. reader # "done"
    BY <1>2
  <2>2. ~host_eof
    BY <2>1, Zenon DEF Flags
  <2>3. fin_sent => host_eof
    BY Zenon DEF Flow, Arrived, Flying
  <2> QED
    BY <1>2, <2>2, <2>3, Zenon DEF peer
<1>5. Within(toProxy', toProxy) /\ Len(guestGot) \in Nat
  BY <1>2, TakesWithin DEF Types
<1>6. CASE server_unacked_end = None
  <2>1. server_next # None
    BY WordSize DEF Types, Numbers, None
  <2>2. Arrived
    BY <1>6, <2>1, Zenon DEF Flow, Flying
  <2>3. /\ \A i \in 1 .. Len(toProxy) : Plain(toProxy[i]) => toProxy[i].ack = server_next
        /\ Len(guestGot) + Len(host_pending) = hostSent
        /\ Continues(host_pending, Len(guestGot))
    BY <1>6, <2>2, Zenon DEF Arrived
  <2>4. Len(guestGot) + Len(pending) = hostSent' /\ Continues(pending, Len(guestGot))
    BY <1>1, <1>5, <2>3, Zenon
  <2>5. SendHostPending(None, pending, eof)
    BY <1>1, <1>6
  <2> QED
    BY <1>1, <1>3, <1>4, <1>5, <2>2, <2>3, <2>4, <2>5, FlowSends
<1>7. CASE server_unacked_end # None
  <2>1. Holds(server_unacked_end, pending, eof)
    <3>1. ~EndGoes(server_unacked_end, pending, eof)
      BY <1>7, Zenon DEF EndGoes
    <3>2. \A d \in Seq(Nat) : ~ChunkGoes(server_unacked_end, pending, d)
      BY <1>7, Zenon DEF ChunkGoes
    <3> QED
      BY <1>1, <3>1, <3>2, PendingEffect
  <2>2. /\ host_pending' = pending /\ server_unacked_end' = server_unacked_end
        /\ toGuest' = toGuest /\ server_next' = server_next /\ fin_sent' = fin_sent
    BY <2>1, Zenon DEF Holds
  <2>3. AddsBare
    BY <2>2, BareAdded
  <2>4. /\ host_eof => host_eof'
        /\ fin_sent => host_pending' = host_pending
        /\ \A n \in Nat : n + Len(host_pending) = hostSent /\ Continues(host_pending, n) =>
                            n + Len(host_pending') = hostSent' /\ Continues(host_pending', n)
    BY <1>1, <1>4, <2>2, Zenon
  <2> QED
    BY <1>3, <1>4, <1>5, <2>2, <2>3, <2>4, FlowKept
<1> QED
  BY <1>6, <1>7

LEMMA FlowFrame ==
    ASSUME Types, Types', Flags, Up, Upward, SynsFirst, syns =< 1, Flow, FrameTask
    PROVE  Flow'
<1>0. /\ handler \notin {"connecting", "ended"} /\ guest_next \in Numbers
      /\ host_pending \in Seq(Nat) /\ host_eof \in BOOLEAN
  BY DEF Upward, Handling, Types, Flags
<1>1. ~ConnectHost
  BY <1>0 DEF ConnectHost
<1>2. ~HandleSyn
  <2>1. PICK a \in 0 .. Len(toProxy) :
          /\ \A i \in 1 .. Len(toProxy) : toProxy[i].syn <=> i =< a
          /\ a < syns
    BY DEF SynsFirst
  <2>2. a = 0
    BY <2>1 DEF Types
  <2>3. 1 \in 1 .. Len(toProxy) => ~toProxy[1].syn
    BY <2>1, <2>2
  <2> QED
    BY <2>3, FirstSegment DEF HandleSyn
<1>3. Within(toProxy', toProxy)
  BY <1>1, <1>2, SynsAnswered
<1>4. CASE HandleAck
  <2>1. /\ Ordinary /\ Acknowledges(Segment.ack)
        /\ SendHostPending(None, host_pending, host_eof)
        /\ UNCHANGED <<host, peer>>
    BY <1>4 DEF HandleAck
  <2>2. host_eof' = host_eof
    BY <1>4, Zenon DEF HandleAck
  <2>3. rcv' = rcv /\ guestGot' = guestGot /\ hostSent' = hostSent
    BY <2>1 DEF host, peer
  <2>4. guestEof' = guestEof
    BY <2>1, Zenon DEF peer
  <2>5. /\ Arrived
        /\ \A i \in 1 .. Len(toProxy) : Plain(toProxy[i]) => toProxy[i].ack = server_next
    BY <2>1, AckArrived
  <2>6. /\ Len(guestGot) + Len(host_pending) = hostSent'
        /\ Continues(host_pending, Len(guestGot))
        /\ fin_sent => host_pending = << >> /\ host_eof
    BY <2>3, <2>5, Zenon DEF Arrived
  <2> QED
    BY <1>0, <1>3, <2>1, <2>2, <2>3, <2>4, <2>5, <2>6, FlowSends
<1>5. CASE ~HandleAck
  <2>1. HandleRst \/ HandleData \/ AckData \/ HandleFin \/ CloseHost
    BY <1>1, <1>2, <1>5 DEF FrameTask
  <2>2. ASSUME NEW next \in Numbers, SendAck(next)
        PROVE  /\ \E x : Grows(x) /\ ~Carries(x)
               /\ UNCHANGED <<host_pending, server_next, server_unacked_end>>
    <3>1. PICK x : Grows(x) /\ IsSegment(x, FALSE, FALSE, FALSE, server_next, next, << >>)
      BY <2>2, BareAck
    <3>2. ~Carries(x)
      BY <3>1 DEF IsSegment, Carries
    <3> QED
      BY <2>2, <3>1, <3>2, BareAck
  <2>3. /\ toGuest' = toGuest \/ \E x : Grows(x) /\ ~Carries(x)
        /\ UNCHANGED <<host_pending, server_next, server_unacked_end>>
    <3>1. CASE HandleRst \/ HandleData \/ CloseHost
      BY <3>1 DEF HandleRst, HandleData, Deliver, CloseHost, proxy
    <3>2. CASE AckData
      BY <1>0, <2>2, <3>2 DEF AckData
    <3>3. CASE HandleFin
      <4>1. AfterFin \in Numbers
        BY <1>0, PlusType DEF AfterFin
      <4> QED
        BY <2>2, <3>3, <4>1 DEF HandleFin
    <3> QED
      BY <2>1, <3>1, <3>2, <3>3
  <2>4. hostSent' = hostSent /\ UNCHANGED peer
    BY <2>1 DEF HandleRst, HandleData, Deliver, AckData, HandleFin, CloseHost, host
  <2>5. host_eof' = host_eof /\ fin_sent' = fin_sent
    BY <2>1, Zenon DEF HandleRst, HandleData, Deliver, AckData, HandleFin, CloseHost, proxy
  <2>6. AddsBare
    BY <2>3, BareAdded
  <2>7. guestEof' = guestEof
    BY <2>4, Zenon DEF peer
  <2>8. /\ fin_sent => host_pending' = host_pending
        /\ \A n \in Nat : n + Len(host_pending) = hostSent /\ Continues(host_pending, n) =>
                            n + Len(host_pending') = hostSent' /\ Continues(host_pending', n)
    BY <2>3, <2>4, Zenon
  <2>9. UNCHANGED <<rcv, server_next, server_unacked_end, guestGot>>
    BY <2>3, <2>4 DEF peer
  <2>10. host_eof => host_eof'
    BY <2>5, Zenon
  <2> QED
    BY <1>3, <2>5, <2>6, <2>7, <2>8, <2>9, <2>10, FlowKept
<1> QED
  BY <1>4, <1>5

\* What the guest acknowledges is at most a chunk old, and never older than before.
LEMMA RcvBehind ==
    ASSUME Types, Flow
    PROVE  /\ \E d \in 0 .. ChunkSize : server_next = Plus(rcv, d)
           /\ \A i \in 1 .. Len(toProxy) :
                Plain(toProxy[i]) /\ toProxy[i].ack = server_next => rcv = server_next
<1>1. CASE Arrived
  <2>1. rcv = server_next /\ 0 \in 0 .. ChunkSize /\ server_next = Plus(rcv, 0)
    BY <1>1, PlusZero, WordSize DEF Arrived, Types
  <2> QED
    BY <2>1
<1>2. ASSUME NEW c \in 1 .. Len(toGuest), Flying(c)
      PROVE  /\ \E d \in 0 .. ChunkSize : server_next = Plus(rcv, d)
             /\ \A i \in 1 .. Len(toProxy) :
                  Plain(toProxy[i]) /\ toProxy[i].ack = server_next => rcv = server_next
  <2> DEFINE s == toGuest[c]
             n == Len(s.data) + (IF s.fin THEN 1 ELSE 0)
  <2>1. /\ server_next = Plus(rcv, n) /\ Len(s.data) =< ChunkSize
        /\ s.fin => s.data = << >>
        /\ \A i \in 1 .. Len(toProxy) : Plain(toProxy[i]) => toProxy[i].ack = rcv
    BY <1>2, Zenon DEF Flying
  <2>2. s \in Segments
    BY ElementOfSeq DEF Types
  <2>3. Len(s.data) \in Nat
    BY <2>2, SegmentData
  <2>4. n \in 0 .. ChunkSize
    <3>1. CASE s.fin
      <4>1. Len(s.data) = 0
        BY <2>1, <3>1
      <4>2. n = 1
        BY <3>1, <4>1
      <4> HIDE DEF n
      <4> QED
        BY <4>2, WordSize
    <3>2. CASE ~s.fin
      <4>1. n = Len(s.data)
        BY <2>3, <3>2
      <4> DEFINE l == Len(s.data)
      <4>2. l \in Nat /\ l =< ChunkSize /\ n = l
        BY <2>1, <2>3, <4>1, Zenon
      <4> HIDE DEF n, l
      <4> QED
        BY <4>2, WordSize
    <3> QED
      BY <3>1, <3>2
  <2> HIDE DEF s, n
  <2> QED
    BY <2>1, <2>4, Zenon
<1> QED
  BY <1>1, <1>2 DEF Flow

LEMMA FlowSays ==
    ASSUME Types, Flow, NEW x, Says(x), Plain(x) => x.ack = rcv,
           UNCHANGED <<toGuest, proxy, host, rcv, guestGot>>, guestEof' <=> guestEof
    PROVE  Flow'
<1>1. /\ toGuest' = toGuest /\ host_pending' = host_pending /\ server_next' = server_next
      /\ server_unacked_end' = server_unacked_end /\ hostSent' = hostSent
      /\ rcv' = rcv /\ guestGot' = guestGot
  BY DEF proxy, host
<1>2. (host_eof => host_eof') /\ (fin_sent' <=> fin_sent) /\ (guestEof' <=> guestEof)
  <2>1. host_eof' = host_eof /\ fin_sent' = fin_sent
    BY Zenon DEF proxy
  <2>2. host_eof => host_eof'
    BY <2>1, Zenon
  <2>3. fin_sent' <=> fin_sent
    BY <2>1, Zenon
  <2> QED
    BY <2>2, <2>3
<1>3. Acks'
  <2>1. Plain(x) => \E d \in 0 .. ChunkSize : server_next = Plus(x.ack, d)
    BY RcvBehind, Zenon
  <2>2. \A i \in 1 .. Len(toProxy) :
          Plain(x) /\ Plain(toProxy[i]) /\ toProxy[i].ack = server_next => x.ack = server_next
    BY RcvBehind, Zenon
  <2> QED
    BY <1>1, <2>1, <2>2, AcksSaid DEF Flow
<1>4. (\A i \in 1 .. Len(toProxy) : Plain(toProxy[i]) => toProxy[i].ack = rcv) =>
        \A i \in 1 .. Len(toProxy') : Plain(toProxy'[i]) => toProxy'[i].ack = rcv
  BY Zenon DEF Says
<1>5. ASSUME Arrived PROVE Arrived'
  <2>1. rcv = server_next
    BY <1>5, Zenon DEF Arrived
  <2>2. server_unacked_end' = None =>
          \A i \in 1 .. Len(toProxy') : Plain(toProxy'[i]) => toProxy'[i].ack = server_next'
    BY <1>1, <1>4, <1>5, <2>1, Zenon DEF Arrived
  <2>3. rcv' = server_next' /\ server_unacked_end' \in {None, server_next'}
    BY <1>1, <1>5 DEF Arrived
  <2>4. /\ fin_sent' <=> guestEof'
        /\ fin_sent' => host_eof' /\ host_pending' = << >>
    BY <1>1, <1>2, <1>5, Zenon DEF Arrived
  <2>5. Len(guestGot') + Len(host_pending') = hostSent' /\ Continues(host_pending', Len(guestGot'))
    BY <1>1, <1>5, Zenon DEF Arrived
  <2>6. \A i \in 1 .. Len(toGuest') : ~Carries(toGuest'[i])
    BY <1>1, <1>5, Zenon DEF Arrived
  <2> QED
    BY <2>2, <2>3, <2>4, <2>5, <2>6, Zenon DEF Arrived
<1>6. ASSUME NEW c, Flying(c) PROVE Flying(c)'
  <2>1. \A i \in 1 .. Len(toProxy') : Plain(toProxy'[i]) => toProxy'[i].ack = rcv
    BY <1>4, <1>6, Zenon DEF Flying
  <2> DEFINE y == toGuest'[c]
             s == toGuest[c]
  <2>2. y = s
    BY <1>1
  <2>5. /\ ~s.syn /\ s.seq = rcv /\ Len(s.data) =< ChunkSize
        /\ server_next = Plus(rcv, Len(s.data) + (IF s.fin THEN 1 ELSE 0))
        /\ server_unacked_end = server_next
        /\ s.fin <=> fin_sent
        /\ fin_sent => host_eof /\ host_pending = << >> /\ s.data = << >>
        /\ ~guestEof
        /\ Len(guestGot) + Len(s.data) + Len(host_pending) = hostSent
        /\ Continues(s.data, Len(guestGot))
        /\ Continues(host_pending, Len(guestGot) + Len(s.data))
    BY <1>6, Zenon DEF Flying
  <2> HIDE DEF y, s
  <2>3. /\ ~y.syn /\ y.seq = rcv' /\ Len(y.data) =< ChunkSize
        /\ server_next' = Plus(rcv', Len(y.data) + (IF y.fin THEN 1 ELSE 0))
        /\ server_unacked_end' = server_next'
        /\ y.fin <=> fin_sent'
        /\ fin_sent' => host_eof' /\ host_pending' = << >> /\ y.data = << >>
        /\ ~guestEof'
        /\ Len(guestGot') + Len(y.data) + Len(host_pending') = hostSent'
        /\ Continues(y.data, Len(guestGot'))
        /\ Continues(host_pending', Len(guestGot') + Len(y.data))
    BY <1>1, <1>2, <2>2, <2>5, Zenon
  <2>4. \A i \in 1 .. Len(toGuest') : Carries(toGuest'[i]) <=> i = c
    BY <1>1, <1>6, Zenon DEF Flying
  <2> QED
    BY <1>1, <2>1, <2>3, <2>4, Zenon DEF Flying, y
<1>7. Counts(guestGot')
  BY <1>1 DEF Flow, Counts
<1> QED
  BY <1>1, <1>3, <1>5, <1>6, <1>7, Zenon DEF Flow

\* The guest takes a bare segment.
LEMMA FlowBare ==
    ASSUME Types, Flow, NEW s, s = toGuest[1], ~Carries(s), Len(toGuest) \in Nat,
           Len(toGuest') = Len(toGuest) - 1,
           \A i \in 1 .. Len(toGuest') : toGuest'[i] = toGuest[i + 1] /\ i + 1 \in 1 .. Len(toGuest),
           UNCHANGED <<rcv, guestGot, toProxy, proxy, host>>, guestEof' <=> guestEof
    PROVE  Flow'
<1>1. /\ toProxy' = toProxy /\ host_pending' = host_pending /\ server_next' = server_next
      /\ server_unacked_end' = server_unacked_end /\ hostSent' = hostSent
      /\ rcv' = rcv /\ guestGot' = guestGot
  BY DEF proxy, host
<1>2. host_eof' = host_eof /\ fin_sent' = fin_sent
  BY Zenon DEF proxy
<1>3. Acks'
  BY <1>1, Zenon DEF Flow, Acks
<1>4. Counts(guestGot') /\ \A i \in 1 .. Len(toGuest') : ~toGuest'[i].syn
  <2>1. Counts(guestGot')
    BY <1>1 DEF Flow, Counts
  <2>2. \A i \in 1 .. Len(toGuest') : ~toGuest'[i].syn
    BY Zenon DEF Flow
  <2> QED
    BY <2>1, <2>2
<1>5. Arrived => Arrived'
  <2>1. (\A i \in 1 .. Len(toGuest) : ~Carries(toGuest[i])) =>
          \A i \in 1 .. Len(toGuest') : ~Carries(toGuest'[i])
    BY Zenon
  <2> QED
    BY <1>1, <1>2, <2>1, Zenon DEF Arrived
<1>6. ASSUME NEW c \in 1 .. Len(toGuest), Flying(c)
      PROVE  \E e \in 1 .. Len(toGuest') : Flying(e)'
  <2>1. \A i \in 1 .. Len(toGuest) : Carries(toGuest[i]) <=> i = c
    BY <1>6, Zenon DEF Flying
  <2>2. c # 1
    BY <2>1
  <2>3. PICK e \in 1 .. Len(toGuest') : e + 1 = c
    <3>1. c - 1 \in 1 .. Len(toGuest') /\ (c - 1) + 1 = c
      BY <2>2
    <3> QED
      BY <3>1
  <2>4. toGuest'[e] = toGuest[c]
    BY <2>3
  <2>5. \A i \in 1 .. Len(toGuest') : Carries(toGuest'[i]) <=> i = e
    <3>1. \A i \in 1 .. Len(toGuest') : i + 1 = c <=> i = e
      BY <2>3
    <3> QED
      BY <2>1, <3>1, Zenon
  <2>6. Flying(e)'
    BY <1>1, <1>2, <1>6, <2>4, <2>5, Zenon DEF Flying
  <2> QED
    BY <2>6
<1> QED
  BY <1>3, <1>4, <1>5, <1>6, Zenon DEF Flow

\* The guest takes the segment that it has to acknowledge.
LEMMA FlowArrives ==
    ASSUME Types, Types', Flow, Flying(1), NEW s \in Segments, s = toGuest[1],
           Len(toGuest) \in Nat, 1 \in 1 .. Len(toGuest), Len(toGuest') = Len(toGuest) - 1,
           \A i \in 1 .. Len(toGuest') : toGuest'[i] = toGuest[i + 1] /\ i + 1 \in 1 .. Len(toGuest),
           rcv' = Plus(rcv, Len(s.data) + (IF s.fin THEN 1 ELSE 0)),
           guestGot' = guestGot \o s.data, guestEof' <=> guestEof \/ s.fin,
           NEW x, Says(x), x.ack = rcv', UNCHANGED <<proxy, host>>
    PROVE  Flow'
<1>1. /\ host_pending' = host_pending /\ server_next' = server_next
      /\ server_unacked_end' = server_unacked_end /\ hostSent' = hostSent
  BY DEF proxy, host
<1>2. host_eof' = host_eof /\ fin_sent' = fin_sent
  BY Zenon DEF proxy
<1>3. /\ \A i \in 1 .. Len(toGuest) : Carries(toGuest[i]) <=> i = 1
      /\ Len(s.data) =< ChunkSize
      /\ server_next = Plus(rcv, Len(s.data) + (IF s.fin THEN 1 ELSE 0))
      /\ server_unacked_end = server_next
      /\ s.fin <=> fin_sent
      /\ fin_sent => host_eof /\ host_pending = << >> /\ s.data = << >>
      /\ ~guestEof
      /\ Len(guestGot) + Len(s.data) + Len(host_pending) = hostSent
      /\ Continues(s.data, Len(guestGot))
      /\ Continues(host_pending, Len(guestGot) + Len(s.data))
  BY Zenon DEF Flying
<1>4. rcv' = server_next
  BY <1>3
<1>5. /\ \A i \in 1 .. Len(toGuest') : ~Carries(toGuest'[i])
      /\ \A i \in 1 .. Len(toGuest') : ~toGuest'[i].syn
  <2>1. \A i \in 1 .. Len(toGuest') : i + 1 # 1
    OBVIOUS
  <2>2. \A i \in 1 .. Len(toGuest') : ~Carries(toGuest'[i])
    BY <1>3, <2>1, Zenon
  <2> QED
    BY <2>2, Zenon DEF Carries
<1>6. Acks'
  <2>1. server_next = Plus(x.ack, 0) /\ 0 \in 0 .. ChunkSize
    <3>1. server_next \in Numbers
      BY DEF Types
    <3>2. Plus(server_next, 0) = server_next
      BY <3>1, PlusZero
    <3>3. 0 \in 0 .. ChunkSize
      BY WordSize
    <3> QED
      BY <1>4, <3>2, <3>3, Zenon
  <2>2. Plain(x) => \E d \in 0 .. ChunkSize : server_next = Plus(x.ack, d)
    BY <2>1, Zenon
  <2> QED
    BY <1>1, <1>4, <2>2, AcksSaid DEF Flow
<1>7. /\ guestGot \in Seq(Nat) /\ s.data \in Seq(Nat) /\ Len(guestGot) \in Nat /\ Len(s.data) \in Nat
  BY SegmentData, LenProperties DEF Types
<1>8. /\ Len(guestGot') = Len(guestGot) + Len(s.data)
      /\ Counts(guestGot')
  <2> DEFINE d == s.data
             g == guestGot
             w == g \o d
  <2>1. /\ g \in Seq(Nat) /\ d \in Seq(Nat) /\ Len(g) \in Nat /\ Len(d) \in Nat
        /\ \A k \in 1 .. Len(d) : d[k] = Len(g) + k
        /\ \A k \in 1 .. Len(g) : g[k] = k
    <3>1. \A k \in 1 .. Len(d) : d[k] = Len(g) + k
      BY <1>3, Zenon DEF Continues
    <3>2. \A k \in 1 .. Len(g) : g[k] = k
      BY <1>7 DEF Flow, Counts
    <3> QED
      BY <1>7, <3>1, <3>2
  <2> HIDE DEF d, g
  <2>2. /\ w \in Seq(Nat) /\ Len(w) = Len(g) + Len(d)
        /\ \A k \in 1 .. Len(g) + Len(d) :
             w[k] = IF k =< Len(g) THEN g[k] ELSE d[k - Len(g)]
    BY <2>1, ConcatProperties
  <2> HIDE DEF w
  <2>3. \A k \in 1 .. Len(w) : w[k] = k
    <3>1. \A k \in 1 .. Len(w) : k =< Len(g) => k \in 1 .. Len(g)
      BY <2>1, <2>2
    <3>2. \A k \in 1 .. Len(w) : ~(k =< Len(g)) => k - Len(g) \in 1 .. Len(d) /\ Len(g) + (k - Len(g)) = k
      BY <2>1, <2>2
    <3> QED
      BY <2>1, <2>2, <3>1, <3>2, Zenon
  <2>4. Counts(w)
    BY <2>2, <2>3 DEF Counts
  <2> QED
    BY <2>2, <2>4 DEF w, g, d
<1>9. Arrived'
  <2>1. rcv' = server_next' /\ server_unacked_end' = server_next' /\ server_unacked_end' # None
    <3>1. server_next # None
      BY WordSize DEF Types, Numbers, None
    <3> QED
      BY <1>1, <1>3, <1>4, <3>1, Zenon
  <2>2. server_unacked_end' \in {None, server_next'}
    BY <2>1
  <2>3. /\ fin_sent' <=> guestEof'
        /\ fin_sent' => host_eof' /\ host_pending' = << >>
    BY <1>1, <1>2, <1>3, Zenon
  <2>4. Len(guestGot') + Len(host_pending') = hostSent' /\ Continues(host_pending', Len(guestGot'))
    BY <1>1, <1>3, <1>8, Zenon
  <2> QED
    BY <1>5, <2>1, <2>2, <2>3, <2>4, Zenon DEF Arrived
<1> QED
  BY <1>5, <1>6, <1>8, <1>9, Zenon DEF Flow

LEMMA FlowGuest ==
    ASSUME Types, Types', guest \in {"open", "reset"}, Flow, Guest
    PROVE  Flow'
<1>1. CASE ~GuestReceive
  <2>1. PICK x : Says(x) /\ (Plain(x) => x.ack = rcv)
    BY <1>1, GuestSays
  <2>2. UNCHANGED <<toGuest, proxy, host, rcv, guestGot, guestEof>>
    BY <1>1, GuestSays
  <2>3. guestEof' <=> guestEof
    <3>1. guestEof' = guestEof
      BY <2>2, Zenon
    <3> QED
      BY <3>1
  <2> QED
    BY <2>1, <2>2, <2>3, FlowSays
<1>2. CASE GuestReceive
  <2> DEFINE s == toGuest[1]
  <2>1. /\ s \in Segments /\ 1 \in 1 .. Len(toGuest) /\ Len(toGuest) \in Nat
        /\ Len(toGuest') = Len(toGuest) - 1
        /\ \A i \in 1 .. Len(toGuest') : toGuest'[i] = toGuest[i + 1] /\ i + 1 \in 1 .. Len(toGuest)
        /\ Fits(s) => /\ rcv' = Plus(rcv, Len(s.data) + (IF s.fin THEN 1 ELSE 0))
                      /\ guestGot' = guestGot \o s.data
                      /\ guestEof' <=> guestEof \/ s.fin
        /\ ~Fits(s) => rcv' = rcv /\ guestGot' = guestGot /\ (guestEof' <=> guestEof)
        /\ Carries(s) => \E x : Says(x) /\ ~x.syn /\ x.ack = rcv'
        /\ ~Carries(s) => toProxy' = toProxy
        /\ UNCHANGED <<proxy, host>>
    BY <1>2, GuestTakes
  <2>2. CASE Carries(s)
    <3>1. PICK c \in 1 .. Len(toGuest) : Flying(c)
      BY <2>1, <2>2, Zenon DEF Flow, Arrived
    <3>2. c = 1
      BY <2>1, <2>2, <3>1, Zenon DEF Flying
    <3>3. Fits(s)
      BY <3>1, <3>2, Zenon DEF Flying, Fits
    <3>4. Flying(1)
      BY <3>1, <3>2
    <3> HIDE DEF s
    <3>5. PICK x : Says(x) /\ x.ack = rcv'
      BY <2>1, <2>2
    <3>6. s = toGuest[1]
      BY DEF s
    <3> QED
      BY <2>1, <3>3, <3>4, <3>5, <3>6, FlowArrives
  <2>3. CASE ~Carries(s)
    <3>1. s.data = << >> /\ ~s.fin /\ (s.fin <=> FALSE)
      BY <2>3, Zenon DEF Carries
    <3>2. rcv' = rcv
      <4>1. Fits(s) => rcv' = Plus(rcv, Len(<< >>) + (IF FALSE THEN 1 ELSE 0))
        <5>1. (IF s.fin THEN 1 ELSE 0) = (IF FALSE THEN 1 ELSE 0)
          BY <3>1
        <5> QED
          BY <2>1, <3>1, <5>1, Zenon
      <4>2. Len(<< >>) + (IF FALSE THEN 1 ELSE 0) = 0
        OBVIOUS
      <4>3. Plus(rcv, 0) = rcv
        BY PlusZero DEF Types
      <4> QED
        BY <2>1, <4>1, <4>2, <4>3, Zenon
    <3>3. guestGot' = guestGot
      <4>1. Fits(s) => guestGot' = guestGot \o << >>
        BY <2>1, <3>1, Zenon
      <4>2. guestGot \o << >> = guestGot
        BY DEF Types
      <4> QED
        BY <2>1, <4>1, <4>2, Zenon
    <3>4. guestEof' <=> guestEof
      BY <2>1, <3>1, Zenon
    <3>5. toProxy' = toProxy /\ s = toGuest[1]
      BY <2>1, <2>3
    <3> HIDE DEF s
    <3> QED
      BY <2>1, <2>3, <3>2, <3>3, <3>4, <3>5, FlowBare
  <2> QED
    BY <2>2, <2>3
<1> QED
  BY <1>1, <1>2

-----------------------------------------------------------------------------
(***************************************************************************)
(* The invariant.                                                          *)
(***************************************************************************)
LEMMA RunningStep ==
    ASSUME Types, Types', Flags, Up, Up', guest \in {"open", "reset"}, Running, [Next]_vars
    PROVE  Live'
<1>0. Upward /\ SynsFirst /\ (syns > 1 => Stuck) /\ (syns =< 1 => Flow) /\ host_eof \in BOOLEAN
      /\ syns \in Nat
  <2>1. syns \in Nat
    BY WordSize DEF Types
  <2> QED
    BY <2>1, Zenon DEF Running, Flags
<1>1. FrameTask \/ ReadTask \/ Guest \/ UNCHANGED vars
  <2>1. ~ConnectFails /\ ~DrainFails /\ ~Disconnect
    BY DEF ConnectFails, DrainFails, DrainRaises, Disconnect, Up
  <2> QED
    BY <2>1 DEF Next
<1>2. ~ConnectHost /\ ~GuestConnect
  BY <1>0 DEF ConnectHost, GuestConnect, Upward, Handling
<1>3. guest' \in {"open", "reset"} /\ syns' = syns
  <2>1. CASE FrameTask
    <3>1. UNCHANGED peer
      BY <1>2, <2>1
      DEF FrameTask, HandleRst, HandleSyn, HandleAck, HandleData, Deliver, AckData, HandleFin,
          CloseHost
    <3> QED
      BY <3>1 DEF peer
  <2>2. CASE ReadTask
    BY <1>0, <2>2, ReadEffect DEF peer
  <2>3. CASE GuestReceive
    <3>1. guest' = "open" /\ UNCHANGED <<link, tasks, proxy, host, syns>>
      BY <2>3, GuestTakes
    <3> QED
      BY <3>1
  <2>4. CASE Guest /\ ~GuestReceive
    BY <2>4, GuestSays
  <2>5. CASE UNCHANGED vars
    BY <2>5 DEF vars, peer
  <2> QED
    BY <1>1, <2>1, <2>2, <2>3, <2>4, <2>5
<1>4. Upward'
  BY <1>0, <1>1, UpwardFrame, UpwardRead, UpwardGuest
<1>5. SynsFirst'
  BY <1>0, <1>1, SynsFirstStep
<1>6. syns > 1 => Stuck'
  BY <1>0, <1>1, StuckFrame, StuckOthers, StuckGuest
<1>7. syns =< 1 => Flow'
  <2>1. CASE FrameTask
    BY <1>0, <2>1, FlowFrame
  <2>2. CASE ReadTask
    BY <1>0, <2>2, FlowRead
  <2>3. CASE Guest
    BY <1>0, <2>3, FlowGuest
  <2>4. CASE UNCHANGED vars
    <3>1. UNCHANGED <<toProxy, toGuest, host_pending, server_next, server_unacked_end, hostSent,
                      rcv, guestGot>>
      BY <2>4 DEF vars, proxy, host, peer
    <3>2. host_eof' = host_eof /\ fin_sent' = fin_sent /\ guestEof' = guestEof
      BY <2>4, Zenon DEF vars, proxy, peer
    <3>3. AddsBare /\ Within(toProxy', toProxy)
      BY <3>1, BareAdded, TakesWithin
    <3>4. UNCHANGED <<rcv, server_next, server_unacked_end, guestGot>>
      BY <3>1
    <3>5. /\ host_eof => host_eof'
          /\ fin_sent => host_pending' = host_pending
          /\ \A n \in Nat : n + Len(host_pending) = hostSent /\ Continues(host_pending, n) =>
                              n + Len(host_pending') = hostSent' /\ Continues(host_pending', n)
      BY <3>1, <3>2, Zenon
    <3> QED
      BY <1>0, <3>2, <3>3, <3>4, <3>5, FlowKept
  <2> QED
    BY <1>1, <2>1, <2>2, <2>3, <2>4
<1>8. Running'
  BY <1>3, <1>4, <1>5, <1>6, <1>7 DEF Running
<1> QED
  BY <1>3, <1>8 DEF Live

\* The link ends: what the two properties speak of stays as it was.
LEMMA LinkEnds ==
    ASSUME Safe, ConnectFails \/ DrainFails \/ Disconnect
    PROVE  Safe' /\ ~Up'
<1>1. /\ link' = "down"
      /\ UNCHANGED <<toGuest, host_pending, server_next, server_unacked_end, host_eof, host, peer>>
  BY Zenon DEF ConnectFails, DrainFails, DrainRaises, Disconnect, proxy
<1>2. /\ toGuest' = toGuest /\ host_pending' = host_pending /\ server_next' = server_next
      /\ server_unacked_end' = server_unacked_end /\ hostSent' = hostSent /\ hostGot' = hostGot
      /\ rcv' = rcv /\ guestGot' = guestGot /\ guestSent' = guestSent /\ guest' = guest
      /\ syns' = syns
  BY <1>1 DEF proxy, host, peer
<1>3. host_eof' = host_eof /\ guestEof' = guestEof
  BY <1>1, Zenon DEF proxy, peer
<1>4. FinComesLast'
  BY <1>2, <1>3, Zenon DEF Safe, StreamsInOrder, FinComesLast
<1>5. StreamsInOrder'
  BY <1>2, <1>4, Zenon DEF Safe, StreamsInOrder, Counts
<1>6. OneInFlight'
  BY <1>2, Zenon DEF Safe, OneInFlight
<1> QED
  BY <1>1, <1>5, <1>6 DEF Safe, Up

LEMMA FlagsStep ==
    ASSUME Types, Flags, Up => Live, [Next]_vars
    PROVE  Flags'
<1>0. /\ host_eof \in BOOLEAN /\ fin_sent \in BOOLEAN /\ guestEof \in BOOLEAN
      /\ host_eof <=> reader = "done"
      /\ host_pending \in Seq(Nat)
  BY Zenon DEF Flags, Types
<1>1. ASSUME NEW unacked, NEW pending \in Seq(Nat), NEW eof \in BOOLEAN,
             SendHostPending(unacked, pending, eof)
      PROVE  fin_sent' \in BOOLEAN
  <2>1. fin_sent' = fin_sent \/ fin_sent' = TRUE
    BY <1>1, PendingEffect, Zenon DEF Holds, EndGoes, ChunkGoes
  <2> QED
    BY <1>0, <2>1, Zenon
<1>2. CASE ReadTask
  <2>1. PICK pending \in Seq(Nat), eof \in BOOLEAN :
          SendHostPending(server_unacked_end, pending, eof)
    BY <1>0, <1>2, ReadEffect
  <2>2. fin_sent' \in BOOLEAN
    BY <1>1, <2>1
  <2>3. UNCHANGED peer
    BY <1>0, <1>2, ReadEffect
  <2>4. guestEof' \in BOOLEAN
    BY <1>0, <2>3, Zenon DEF peer
  <2>5. host_eof' \in BOOLEAN /\ (host_eof' <=> reader' = "done")
    <3>1. CASE ReadHost
      <4>1. host_eof' = host_eof
        BY <3>1, Zenon DEF ReadHost
      <4>2. reader' = reader
        BY <3>1 DEF ReadHost, tasks
      <4> QED
        BY <1>0, <4>1, <4>2, Zenon
    <3>2. CASE ReadEof
      <4>1. host_eof' = TRUE /\ reader' = "done"
        BY <3>2, Zenon DEF ReadEof
      <4> QED
        BY <4>1, Zenon
    <3> QED
      BY <1>2, <3>1, <3>2 DEF ReadTask
  <2> QED
    BY <2>2, <2>4, <2>5, Zenon DEF Flags
<1>3. CASE HandleAck
  <2>1. fin_sent' \in BOOLEAN
    BY <1>0, <1>1, <1>3 DEF HandleAck
  <2>2. host_eof' = host_eof /\ reader' = reader /\ UNCHANGED peer
    BY <1>3, Zenon DEF HandleAck
  <2>3. guestEof' \in BOOLEAN
    BY <1>0, <2>2, Zenon DEF peer
  <2> QED
    BY <1>0, <2>1, <2>2, <2>3, Zenon DEF Flags
<1>4. CASE ConnectHost
  <2>1. handler = "connecting" /\ Up /\ reader' = "reading"
    BY <1>4 DEF ConnectHost
  <2>2. Opening
    <3>1. ~Running
      BY <2>1 DEF Running, Upward, Handling
    <3> QED
      BY <2>1, <3>1 DEF Live, Types
  <2>3. reader = "none"
    BY <2>1, <2>2 DEF Opening
  <2>4. ~host_eof
    <3>1. reader # "done"
      BY <2>3
    <3> QED
      BY <1>0, <3>1, Zenon
  <2>5. host_eof' = host_eof /\ fin_sent' = fin_sent /\ UNCHANGED peer
    BY <1>4, Zenon DEF ConnectHost
  <2>6. guestEof' \in BOOLEAN
    BY <1>0, <2>5, Zenon DEF peer
  <2>7. reader' # "done"
    BY <2>1
  <2> QED
    BY <1>0, <2>4, <2>5, <2>6, <2>7, Zenon DEF Flags
<1>5. CASE GuestReceive
  <2>1. UNCHANGED <<tasks, proxy>>
    BY <1>5, Zenon DEF GuestReceive
  <2>2. guestEof' \in BOOLEAN
    <3> DEFINE fits == guest # "connecting" /\ ~Head(toGuest).syn /\ Head(toGuest).seq = rcv
    <3>1. guestEof' = (guestEof \/ (fits /\ Head(toGuest).fin))
      BY <1>5, Zenon DEF GuestReceive
    <3> HIDE DEF fits
    <3> QED
      BY <3>1, Zenon
  <2>3. host_eof' = host_eof /\ fin_sent' = fin_sent
    BY <2>1, Zenon DEF proxy
  <2>4. reader' = reader
    BY <2>1 DEF tasks
  <2> QED
    BY <1>0, <2>2, <2>3, <2>4, Zenon DEF Flags
<1>6. ASSUME host_eof' = host_eof, fin_sent' = fin_sent, guestEof' = guestEof, reader' = reader
      PROVE  Flags'
  BY <1>0, <1>6, Zenon DEF Flags
<1>7. CASE HandleRst \/ HandleSyn \/ HandleData \/ AckData \/ HandleFin \/ CloseHost
  <2>1. reader' = reader
    BY <1>7 DEF HandleRst, HandleSyn, HandleData, Deliver, AckData, HandleFin, CloseHost, tasks
  <2>2. host_eof' = host_eof /\ fin_sent' = fin_sent
    BY <1>7, Zenon
    DEF HandleRst, HandleSyn, HandleData, Deliver, AckData, HandleFin, CloseHost, proxy
  <2>3. guestEof' = guestEof
    BY <1>7, Zenon
    DEF HandleRst, HandleSyn, HandleData, Deliver, AckData, HandleFin, CloseHost, peer
  <2> QED
    BY <1>6, <2>1, <2>2, <2>3
<1>8. CASE ConnectFails \/ DrainFails \/ Disconnect
  BY <1>6, <1>8, Zenon DEF ConnectFails, DrainFails, DrainRaises, Disconnect, proxy, peer
<1>9. CASE Guest /\ ~GuestReceive
  BY <1>6, <1>9, Zenon
  DEF Guest, GuestConnect, GuestSend, GuestFin, GuestFinWithData, GuestRepeat, GuestReset, tasks,
      proxy
<1>10. CASE UNCHANGED vars
  BY <1>6, <1>10, Zenon DEF vars, tasks, proxy, peer
<1> QED
  BY <1>2, <1>3, <1>4, <1>5, <1>7, <1>8, <1>9, <1>10 DEF Next, FrameTask, Guest

LEMMA Start == Init => IInv
<1> SUFFICES ASSUME Init PROVE IInv
  OBVIOUS
<1>1. /\ link = "up" /\ toProxy = << >> /\ toGuest = << >>
      /\ handler = "idle" /\ reader = "none" /\ host_writer = "none"
      /\ host_pending = << >> /\ guest_pending = << >>
      /\ guest_next = 0 /\ server_next = ServerIsn /\ server_unacked_end = None
      /\ hostSent = 0 /\ hostGot = << >>
      /\ guest = "closed" /\ snd = GuestIsn /\ una = GuestIsn /\ rcv = 0
      /\ guestSent = 0 /\ guestGot = << >> /\ finSeq = None /\ syns = 0
  BY Zenon DEF Init
<1>2. host_eof = FALSE /\ fin_sent = FALSE /\ guestEof = FALSE /\ frame = Nothing
  BY Zenon DEF Init
<1>3. frame \in Segments
  <2>1. << >> \in Seq(Nat) /\ 0 \in Numbers
    <3>1. << >> \in Seq(Nat)
      OBVIOUS
    <3>2. 0 \in Numbers
      BY WordSize DEF Numbers
    <3> QED
      BY <3>1, <3>2
  <2> QED
    BY <1>2, <2>1 DEF Nothing, Segments
<1>4. Types
  <2>1. toProxy \in Seq(Segments) /\ toGuest \in Seq(Segments)
    BY <1>1
  <2>2. host_pending \in Seq(Nat) /\ guest_pending \in Seq(Nat) /\ hostGot \in Seq(Nat)
        /\ guestGot \in Seq(Nat)
    BY <1>1
  <2>3. 0 \in Numbers /\ 0 \in 0 .. HostBytes /\ 0 \in 0 .. GuestBytes /\ 0 \in 0 .. MaxSyns
        /\ ServerIsn \in Numbers /\ GuestIsn \in Numbers
    BY WordSize DEF Numbers
  <2> QED
    BY <1>1, <1>3, <2>1, <2>2, <2>3 DEF Types
<1>5. Flags
  <2>1. reader # "done"
    BY <1>1
  <2> QED
    BY <1>2, <2>1, Zenon DEF Flags
<1>6. Opening
  <2>1. Len(toProxy) = 0 /\ Len(toGuest) = 0 /\ Len(host_pending) = 0
    BY <1>1
  <2>2. Plus(ServerIsn, 0) = ServerIsn
    BY PlusZero, WordSize
  <2>3. /\ \A i \in 1 .. Len(toProxy) : Asks(toProxy[i])
        /\ \A i \in 1 .. Len(toGuest) : Answers(toGuest[i], i)
        /\ Continues(host_pending, 0)
    BY <2>1 DEF Continues
  <2>4. ~guestEof /\ ~fin_sent
    BY <1>2, Zenon
  <2>5. syns = Len(toProxy) + Len(toGuest) + (IF handler = "connecting" THEN 1 ELSE 0)
    BY <1>1, <2>1
  <2> QED
    BY <1>1, <2>1, <2>2, <2>3, <2>4, <2>5 DEF Opening
<1>7. Up /\ Live
  BY <1>1, <1>6 DEF Up, Live
<1> QED
  BY <1>4, <1>5, <1>7 DEF IInv

LEMMA Step == IInv /\ [Next]_vars => IInv'
<1> SUFFICES ASSUME IInv, [Next]_vars PROVE IInv'
  OBVIOUS
<1>1. Types /\ Flags /\ (Up => Live) /\ (~Up => Safe)
  BY DEF IInv
<1>2. Types'
  <2>1. host_eof \in BOOLEAN
    BY <1>1, Zenon DEF Flags
  <2> QED
    BY <1>1, <2>1, TypesFrame, TypesOthers, TypesGuest DEF Next
<1>3. Flags'
  BY <1>1, FlagsStep
<1>4. CASE ~Up
  BY <1>1, <1>2, <1>3, <1>4, DownStep DEF IInv
<1>5. CASE Up /\ Up'
  <2>1. guest \in {"closed", "connecting", "open", "reset"}
    BY <1>1 DEF Types
  <2>2. CASE guest \in {"closed", "connecting"}
    BY <1>1, <1>2, <1>3, <1>5, <2>2, OpeningStep DEF IInv, Live
  <2>3. CASE guest \in {"open", "reset"}
    BY <1>1, <1>2, <1>3, <1>5, <2>3, RunningStep DEF IInv, Live
  <2> QED
    BY <2>1, <2>2, <2>3
<1>6. CASE Up /\ ~Up'
  <2>1. Safe
    BY <1>1, <1>6, LiveIsSafe
  <2>2. ConnectFails \/ DrainFails \/ Disconnect
    <3>1. ~FrameTask
      BY <1>6
      DEF FrameTask, HandleRst, HandleSyn, ConnectHost, HandleAck, HandleData, Deliver, AckData,
          HandleFin, CloseHost, Up
    <3>2. ~ReadTask
      BY <1>6 DEF ReadTask, ReadHost, ReadEof, Up
    <3>3. ~Guest
      BY <1>6
      DEF Guest, GuestConnect, GuestReceive, GuestSend, GuestFin, GuestFinWithData, GuestRepeat,
          GuestReset, Up
    <3>4. ~UNCHANGED vars
      BY <1>6 DEF vars, Up
    <3> QED
      BY <3>1, <3>2, <3>3, <3>4 DEF Next
  <2> QED
    BY <1>2, <1>3, <2>1, <2>2, LinkEnds DEF IInv
<1> QED
  BY <1>4, <1>5, <1>6

LEMMA Invariance == Spec => []IInv
BY Start, Step, PTL DEF Spec

LEMMA IsSafe == IInv => Safe
BY LiveIsSafe DEF IInv

\* handle_tcp, send_tcp and read_host hand each side's bytes to the other in order and
\* once, and the guest the end of the stream only after every byte, for any word size,
\* whatever the guest repeats.
THEOREM StreamsCorrect == Spec => []StreamsInOrder
<1>1. IInv => StreamsInOrder
  BY IsSafe DEF Safe
<1> QED
  BY <1>1, Invariance, PTL

\* Until the guest repeats its SYN the proxy has at most one segment on the way that the
\* guest has to acknowledge, and takes none for acknowledged that has not arrived.
THEOREM SingleFlight == Spec => []OneInFlight
<1>1. IInv => OneInFlight
  BY IsSafe DEF Safe
<1> QED
  BY <1>1, Invariance, PTL
=============================================================================
