------------------------------ MODULE ByteStream ------------------------------
(***************************************************************************)
(* What the transport promises its reader: the bytes of one connection, in *)
(* order, each once, and an end of stream that is reported only when every *)
(* byte has been read.  A byte is its position in the stream.              *)
(***************************************************************************)
EXTENDS Integers, Sequences

VARIABLES
    sent,    \* bytes the peer has sent
    ended,   \* has it closed its side?
    out,     \* bytes the reader has been given
    answer   \* what the reader was told last

vars == <<sent, ended, out, answer>>

Init == sent = 0 /\ ended = FALSE /\ out = <<>> /\ answer = "none"

\* A connection attempt succeeds; nothing was read before.
Begin ==
    /\ out = <<>>
    /\ sent' = 0 /\ ended' = FALSE
    /\ UNCHANGED <<out, answer>>

Send ==
    /\ ~ended
    /\ sent' = sent + 1
    /\ UNCHANGED <<ended, out, answer>>

End ==
    /\ ended' = TRUE
    /\ UNCHANGED <<sent, out, answer>>

Read ==
    /\ \E n \in 1 .. sent - Len(out) :
          out' = out \o [i \in 1 .. n |-> Len(out) + i]
    /\ answer' = "BYTES"
    /\ UNCHANGED <<sent, ended>>

EndOfStream ==
    /\ ended /\ Len(out) = sent
    /\ answer' = "CONN_CLOSE"
    /\ UNCHANGED <<sent, ended, out>>

NoData ==
    /\ answer' \notin {"BYTES", "CONN_CLOSE"}
    /\ UNCHANGED <<sent, ended, out>>

Next == Begin \/ Send \/ End \/ Read \/ EndOfStream \/ NoData

Spec == Init /\ [][Next]_vars
=============================================================================
