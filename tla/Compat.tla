-------------------------------- MODULE Compat --------------------------------
(***************************************************************************)
(* The allocator and the random source that wolfSSL and wolfSSH use        *)
(* (UefiCompat.c).                                                         *)
(*                                                                         *)
(* The firmware's pool is external: AllocatePool takes any free slot or    *)
(* fails, FreePool gives a slot back, and what a free slot still holds is  *)
(* up to the firmware.  Other users of the pool (Tcp4.c, Terminal.c) share *)
(* it.  The callers follow C's rules, except that they may pass a pointer  *)
(* once more after they freed it, as long as no allocation of this library *)
(* has taken its slot since: the header cannot tell a block from its       *)
(* successor.  A byte of a block is the number of the write that set it.   *)
(***************************************************************************)
EXTENDS Integers, Sequences, FiniteSets

CONSTANTS
    Slots,          \* places in the pool
    Sizes,          \* sizes that are asked for
    MAX_UINTN, HeaderSize,
    MaxWrites       \* writes to blocks in this run

CompatAssumption ==
    /\ IsFiniteSet(Slots) /\ Sizes \subseteq 0 .. MAX_UINTN
    /\ HeaderSize \in 1 .. MAX_UINTN /\ MAX_UINTN \in Nat /\ MaxWrites \in Nat

Null == 0
NullAssumption == Null \notin Slots

Signature == "WSSHALLC"
Erased    == "0"
Other     == "other"            \* a header of something else
Fresh     == 0                  \* a byte nobody has written

VARIABLES
    room,           \* [slot -> bytes AllocatePool gave, or -1 when it is free]
    header,         \* [slot -> what is where the signature would be]
    Size,           \* [slot -> Header->Size]
    bytes,          \* [slot -> content behind the header]
    owned,          \* slots the callers hold
    stale,          \* pointers the callers have freed
    expected,       \* [slot -> the content its owner counts on]
    writes,
    corrupted,      \* FreePool was given a slot that this library does not hold
    mRng, installed,    \* the random source: cached, and present in the firmware
    random          \* <<what the last call returned, what its buffer holds>>

heap == <<room, header, Size, bytes, owned, stale, expected, writes, corrupted>>
rng  == <<mRng, installed, random>>
vars == <<heap, rng>>

Free == {s \in Slots : room[s] = -1}
Lesser(a, b) == IF a < b THEN a ELSE b
Unset(n) == [k \in 1 .. n |-> Fresh]

-----------------------------------------------------------------------------
(***************************************************************************)
(* Effects on the heap, as functions of a record of its parts, so that     *)
(* UefiCompatReallocate can be put together from the other two.            *)
(***************************************************************************)
Heap == [room |-> room, header |-> header, Size |-> Size, bytes |-> bytes,
         bad |-> corrupted]
HeapIs(h) ==
    /\ room' = h.room /\ header' = h.header /\ Size' = h.Size /\ bytes' = h.bytes
    /\ corrupted' = h.bad

Unchecked(n) == FALSE
TooLarge(n) == n > MAX_UINTN - HeaderSize

\* AllocatePool in a slot, with the sum computed in a word, and the header.
Allocated(h, s, n) ==
    [h EXCEPT !.room[s] = (HeaderSize + n) % (MAX_UINTN + 1), !.header[s] = Signature,
              !.Size[s] = n, !.bytes[s] = Unset(n)]

\* Where an allocation of n bytes may land; Null when it fails.
Places(n) == IF TooLarge(n) THEN {Null} ELSE Free \cup {Null}

KeepsSignature(after) == Signature
AfterErasing(after) == after

\* UefiCompatFree of a block; `after' is what the firmware leaves in the slot.
Freed(h, s, after) ==
    IF h.header[s] # Signature THEN h
    ELSE [h EXCEPT !.header[s] = AfterErasing(after), !.bad = h.bad \/ h.room[s] = -1,
                   !.room[s] = -1]

Grown(old, new) == new
CopySize(old, new) == Lesser(old, new)

\* What a copy of n bytes from the old block brings; beyond it lies anything.
Copied(s, n) == [k \in 1 .. n |-> IF k =< Len(bytes[s]) THEN bytes[s][k] ELSE -1]

-----------------------------------------------------------------------------
UefiCompatAllocate ==
    \E n \in Sizes : \E s \in Places(n) :
      /\ IF s = Null
         THEN UNCHANGED heap
         ELSE /\ HeapIs(Allocated(Heap, s, n))
              /\ owned' = owned \cup {s} /\ stale' = stale \ {s}
              /\ expected' = [expected EXCEPT ![s] = << >>]
              /\ UNCHANGED writes
      /\ UNCHANGED rng

\* Of an owned block, or of a pointer freed before.
UefiCompatFree ==
    \E s \in owned \cup stale, after \in {Erased, Other} :
      /\ HeapIs(Freed(Heap, s, after))
      /\ owned' = owned \ {s} /\ stale' = stale \cup {s}
      /\ UNCHANGED <<expected, writes, rng>>

KeepsOld(s) == HeapIs(Heap)

\* The old block is copied and freed only after the new one is there; a pointer
\* freed before is refused by its header.  Buffer = NULL is UefiCompatAllocate and
\* NewSize = 0 is UefiCompatFree.
UefiCompatReallocate ==
    \E s \in owned \cup stale, n \in Sizes \ {0}, after \in {Erased, Other} : \E t \in Places(n) :
      /\ IF header[s] # Signature \/ t = Null
         THEN KeepsOld(s) /\ UNCHANGED <<owned, stale, expected>>
         ELSE LET m     == CopySize(Size[s], n)
                  moved == [Allocated(Heap, t, n) EXCEPT
                              !.bytes[t] = Copied(s, m) \o Unset(n - m)]
              IN /\ HeapIs(Freed(moved, s, after))
                 /\ owned' = (owned \ {s}) \cup {t}
                 /\ stale' = (stale \cup {s}) \ {t}
                 /\ expected' = [expected EXCEPT
                      ![t] = SubSeq(expected[s], 1, Lesser(Len(expected[s]), n))]
      /\ UNCHANGED <<writes, rng>>

\* An owner fills its block.
Write ==
    \E s \in owned :
      /\ writes < MaxWrites
      /\ writes' = writes + 1
      /\ expected' = [expected EXCEPT ![s] = [k \in 1 .. Size[s] |-> writes + 1]]
      /\ bytes' = [bytes EXCEPT ![s] = expected'[s]]
      /\ UNCHANGED <<room, header, Size, owned, stale, corrupted, rng>>

\* AllocatePool and FreePool of the other users.
OthersAllocate ==
    \E s \in Free :
      /\ room' = [room EXCEPT ![s] = HeaderSize]
      /\ header' = [header EXCEPT ![s] = Other]
      /\ UNCHANGED <<Size, bytes, owned, stale, expected, writes, corrupted, rng>>
OthersFree ==
    \E s \in Slots \ Free :
      /\ header[s] = Other
      /\ room' = [room EXCEPT ![s] = -1]
      /\ UNCHANGED <<header, Size, bytes, owned, stale, expected, writes, corrupted, rng>>

-----------------------------------------------------------------------------
\* What GetRNG leaves in the buffer decides the result.
IgnoresStatus(filled) == 0
ResultOf(filled) == IF filled THEN 0 ELSE -1

\* UefiRandomGenerateBlock; the source is looked for until it was found once.
UefiRandomGenerateBlock ==
    /\ \E fails \in BOOLEAN :
         LET source == mRng \/ installed
             filled == source /\ ~fails
         IN /\ mRng' = source
            /\ random' = <<IF source THEN ResultOf(filled) ELSE -1,
                           IF filled THEN "random" ELSE "as before">>
    /\ UNCHANGED <<heap, installed>>

InstallRng ==
    /\ ~installed /\ installed' = TRUE
    /\ UNCHANGED <<heap, mRng, random>>

Init ==
    /\ room = [s \in Slots |-> -1] /\ header = [s \in Slots |-> Other]
    /\ Size = [s \in Slots |-> 0] /\ bytes = [s \in Slots |-> << >>]
    /\ owned = {} /\ stale = {} /\ expected = [s \in Slots |-> << >>]
    /\ writes = 0 /\ corrupted = FALSE
    /\ mRng = FALSE /\ installed \in BOOLEAN /\ random = <<-1, "as before">>

Next ==
    \/ UefiCompatAllocate \/ UefiCompatFree \/ UefiCompatReallocate
    \/ Write \/ OthersAllocate \/ OthersFree
    \/ UefiRandomGenerateBlock \/ InstallRng
Spec == Init /\ [][Next]_vars

-----------------------------------------------------------------------------
(***************************************************************************)
(* Properties.                                                             *)
(***************************************************************************)
\* Every variable has its type, and every block really has the bytes its header
\* promises: the sum of size and header never wrapped.
TypeOK ==
    /\ room \in [Slots -> -1 .. MAX_UINTN] /\ header \in [Slots -> {Signature, Erased, Other}]
    /\ Size \in [Slots -> 0 .. MAX_UINTN]
    /\ owned \subseteq Slots /\ stale \subseteq Slots \ owned
    /\ writes \in 0 .. MaxWrites /\ corrupted \in BOOLEAN
    /\ mRng \in BOOLEAN /\ installed \in BOOLEAN
    /\ \A s \in owned : room[s] = HeaderSize + Size[s]

\* A block is in the pool exactly as long as somebody holds it: a failed
\* reallocation keeps the old block, a successful one leaves nothing behind.
HeldIsAllocated == owned = {s \in Slots \ Free : header[s] = Signature}

\* The pool is never given a block twice, nor one of its other users' blocks,
\* whatever the callers free or reallocate a second time.
PoolIntact == ~corrupted /\ \A s \in Free : header[s] # Signature

\* An owner finds what it wrote, across reallocations up to the smaller size, and
\* whatever the other blocks go through; nothing from beyond a block is copied.
ContentKept ==
    \A s \in owned :
      /\ expected[s] = SubSeq(bytes[s], 1, Len(expected[s]))
      /\ Len(bytes[s]) = Size[s] /\ -1 \notin {bytes[s][k] : k \in DOMAIN bytes[s]}

\* A caller that is told it got random bytes did get them.
RandomOrFailure == random[1] = 0 => random[2] = "random" /\ mRng
=============================================================================
