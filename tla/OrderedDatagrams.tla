--------------------------- MODULE OrderedDatagrams ---------------------------
(***************************************************************************)
(* What the USB tunnel promises the engine at one end about the datagrams  *)
(* of the engine at the other: each one arrives at most once, whole, and   *)
(* in the order it was sent.  Like UDP it may lose any of them.            *)
(***************************************************************************)
EXTENDS Integers, Sequences

CONSTANT Payload    \* the datagrams one engine sends, in this order

VARIABLES offered,  \* how many of them it has sent
          delivered \* what the other engine has received

vars == <<offered, delivered>>

\* Is payload p later in the engine's order than everything delivered so far?
Fresh(i) == \A k \in 1..Len(delivered) : \E j \in 1..i-1 : delivered[k] = Payload[j]

Init == offered = 0 /\ delivered = <<>>

Offer ==
    /\ offered < Len(Payload)
    /\ offered' = offered + 1
    /\ UNCHANGED delivered

Deliver ==
    /\ \E i \in 1..offered : Fresh(i) /\ delivered' = Append(delivered, Payload[i])
    /\ UNCHANGED offered

Spec == Init /\ [][Offer \/ Deliver]_vars
=============================================================================
