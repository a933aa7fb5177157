----------------------------- MODULE RingBuffer -----------------------------
(***************************************************************************)
(* RingBuffer<T> (common/ring_buffer.hpp): head, tail and count over a     *)
(* buffer of capacity cells; a block is copied in at most two chunks, up   *)
(* to the end of the buffer and from its start.  Every method holds mutex_ *)
(* throughout, so each is one action.                                      *)
(***************************************************************************)
EXTENDS Naturals, Sequences, FiniteSets

CONSTANTS
    Items,       \* what the buffer holds
    Capacities,  \* what it may be resized to
    MaxBlock     \* longest block written or read at once

ASSUME RingBufferAssumption ==
    /\ Capacities \subseteq Nat \ {0} /\ Capacities /= {}
    /\ MaxBlock \in Nat
    /\ Items /= {}

VARIABLES capacity, buffer, head, tail, count,
          out    \* what the last read or peek copied out

vars == <<capacity, buffer, head, tail, count, out>>

Blank == CHOOSE x \in Items : TRUE   \* T{}

Cells(c) == 0 .. c - 1

Blocks == UNION {[1 .. n -> Items] : n \in 0 .. MaxBlock}

Least(a, b) == IF a < b THEN a ELSE b

TypeOK ==
    /\ capacity \in Capacities
    /\ buffer \in [Cells(capacity) -> Items]
    /\ head \in Cells(capacity) /\ tail \in Cells(capacity)
    /\ count \in 0 .. capacity
    /\ out \in Blocks

Init ==
    /\ capacity \in Capacities
    /\ buffer = [i \in Cells(capacity) |-> Blank]
    /\ head = 0 /\ tail = 0 /\ count = 0
    /\ out = <<>>

-----------------------------------------------------------------------------
(* Copying                                                                 *)

\* copy_to_buffer: the items of src from position from on, n of them.
CopyTo(buf, offset, src, from, n) ==
    [i \in DOMAIN buf |->
        IF i \in offset .. offset + n - 1 THEN src[from + i - offset] ELSE buf[i]]

FirstChunk(pos, n) == Least(n, capacity - pos)

\* The two chunks of a block written at head_.
Filled(src, n) ==
    LET first == FirstChunk(head, n)
    IN  CopyTo(CopyTo(buffer, head, src, 1, first), 0, src, 1 + first, n - first)

\* Where head_ or tail_ is after a block of n items.
Moved(pos, n) ==
    LET first == FirstChunk(pos, n)
    IN  IF n - first > 0 THEN n - first ELSE (pos + first) % capacity

\* Mutant: the second chunk is taken up where the first one ended.
CopiedStraight(n) ==
    LET first == FirstChunk(tail, n)
    IN  [i \in 1 .. n |-> IF i <= first THEN buffer[tail + i - 1]
                          ELSE buffer[capacity - 1]]

\* copy_from_buffer, both chunks.
Copied(n) ==
    LET first == FirstChunk(tail, n)
    IN  [i \in 1 .. n |-> IF i <= first THEN buffer[tail + i - 1]
                          ELSE buffer[i - first - 1]]

-----------------------------------------------------------------------------
(* The methods                                                             *)

\* A block of n items goes in at head_.
Put(src, n) ==
    /\ buffer' = Filled(src, n)
    /\ head' = Moved(head, n)
    /\ count' = count + n
    /\ out' = <<>>
    /\ UNCHANGED <<capacity, tail>>

Free == IF count < capacity THEN capacity - count ELSE 0

write(src) == Put(src, Least(Len(src), Free))

try_write(src) ==
    IF Len(src) > Free
    THEN out' = <<>> /\ UNCHANGED <<capacity, buffer, head, tail, count>>
    ELSE Put(src, Len(src))

\* A block that fills the buffer starts it afresh; a smaller one pushes out
\* as many of the oldest items as it needs.
write_overwrite(src) ==
    /\ IF Len(src) >= capacity
       THEN /\ buffer' = CopyTo(buffer, 0, src, 1 + Len(src) - capacity, capacity)
            /\ head' = 0 /\ tail' = 0 /\ count' = capacity
       ELSE LET drop == IF Len(src) > Free THEN Len(src) - Free ELSE 0
            IN  /\ tail' = (tail + drop) % capacity
                /\ buffer' = Filled(src, Len(src))
                /\ head' = Moved(head, Len(src))
                /\ count' = count - drop + Len(src)
    /\ out' = <<>>
    /\ UNCHANGED capacity

read(n) ==
    LET k == Least(n, count)
    IN  /\ out' = Copied(k)
        /\ tail' = Moved(tail, k)
        /\ count' = count - k
        /\ UNCHANGED <<capacity, buffer, head>>

peek(n) ==
    /\ out' = Copied(Least(n, count))
    /\ UNCHANGED <<capacity, buffer, head, tail, count>>

skip(n) ==
    LET k == Least(n, count)
    IN  /\ tail' = (tail + k) % capacity
        /\ count' = count - k
        /\ out' = <<>>
        /\ UNCHANGED <<capacity, buffer, head>>

clear ==
    /\ head' = 0 /\ tail' = 0 /\ count' = 0 /\ out' = <<>>
    /\ UNCHANGED <<capacity, buffer>>

resize(c) ==
    /\ capacity' = c
    /\ buffer' = [i \in Cells(c) |-> Blank]
    /\ head' = 0 /\ tail' = 0 /\ count' = 0 /\ out' = <<>>

Next ==
    \/ \E src \in Blocks : write(src)
    \/ \E src \in Blocks : try_write(src)
    \/ \E src \in Blocks : write_overwrite(src)
    \/ \E n \in 0 .. MaxBlock : read(n)
    \/ \E n \in 0 .. MaxBlock : peek(n)
    \/ \E n \in 0 .. MaxBlock : skip(n)
    \/ clear
    \/ \E c \in Capacities : resize(c)

Spec == Init /\ [][Next]_vars

-----------------------------------------------------------------------------
(* Properties                                                              *)

Contents == [i \in 1 .. count |-> buffer[(tail + i - 1) % capacity]]

Queue == INSTANCE BoundedQueue WITH queue <- Contents

\* The ring buffer is a bounded queue: no item is lost, repeated or reordered
\* by the wrap-around, by an overwrite or by a block as long as the buffer.
IsQueue == Queue!Spec
=============================================================================
