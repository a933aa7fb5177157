---------------------------- MODULE BoundedQueue ----------------------------
(***************************************************************************)
(* What a ring buffer promises: a queue of items with a capacity, to which *)
(* a block of items is appended as far as it fits, or with the oldest      *)
(* items making room for it, and from whose front items are taken.  out is *)
(* what the last operation handed out.                                     *)
(***************************************************************************)
EXTENDS Naturals, Sequences, FiniteSets

CONSTANTS Items, Capacities, MaxBlock

VARIABLES queue, capacity, out

Blocks == UNION {[1 .. n -> Items] : n \in 0 .. MaxBlock}

Least(a, b) == IF a < b THEN a ELSE b

FirstOf(s, n) == SubSeq(s, 1, n)
LastOf(s, n) == SubSeq(s, Len(s) - n + 1, Len(s))
Without(s, n) == SubSeq(s, n + 1, Len(s))

Init == queue = <<>> /\ capacity \in Capacities /\ out = <<>>

\* As much of the block as there is room for.
AppendFitting(block) ==
    /\ queue' = queue \o FirstOf(block, Least(Len(block), capacity - Len(queue)))
    /\ out' = <<>>
    /\ UNCHANGED capacity

\* The whole block or nothing.
AppendAll(block) ==
    /\ queue' = IF Len(block) <= capacity - Len(queue) THEN queue \o block ELSE queue
    /\ out' = <<>>
    /\ UNCHANGED capacity

\* The whole block; the newest capacity items stay.
AppendNewest(block) ==
    /\ queue' = LastOf(queue \o block, Least(Len(queue) + Len(block), capacity))
    /\ out' = <<>>
    /\ UNCHANGED capacity

Take(n) ==
    /\ out' = FirstOf(queue, Least(n, Len(queue)))
    /\ queue' = Without(queue, Least(n, Len(queue)))
    /\ UNCHANGED capacity

Drop(n) ==
    /\ queue' = Without(queue, Least(n, Len(queue)))
    /\ out' = <<>>
    /\ UNCHANGED capacity

Look(n) ==
    /\ out' = FirstOf(queue, Least(n, Len(queue)))
    /\ UNCHANGED <<queue, capacity>>

Empty == queue' = <<>> /\ out' = <<>> /\ UNCHANGED capacity

Resize(c) == queue' = <<>> /\ out' = <<>> /\ capacity' = c

Next ==
    \/ \E b \in Blocks : AppendFitting(b) \/ AppendAll(b) \/ AppendNewest(b)
    \/ \E n \in 0 .. MaxBlock : Take(n) \/ Drop(n) \/ Look(n)
    \/ Empty
    \/ \E c \in Capacities : Resize(c)

Spec == Init /\ [][Next]_<<queue, capacity, out>>
=============================================================================
