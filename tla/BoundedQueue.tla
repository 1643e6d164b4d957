---------------------------- MODULE BoundedQueue ----------------------------
(***************************************************************************)
(* What array_circular promises: a queue of limited capacity that gives    *)
(* back what was put into it, in that order, and refuses what it cannot    *)
(* hold.                                                                   *)
(***************************************************************************)
EXTENDS Naturals, Sequences

CONSTANTS Capacity, Values

VARIABLES
    items,  \* what the queue holds
    output  \* the value given back last

Init == items = <<>> /\ output \in Values

Put(value) ==
    /\ Len(items) < Capacity
    /\ items' = Append(items, value)
    /\ UNCHANGED output

Take ==
    /\ items # <<>>
    /\ output' = Head(items)
    /\ items' = Tail(items)

Next == Take \/ \E value \in Values : Put(value)

Spec == Init /\ [][Next]_<<items, output>>
=============================================================================
