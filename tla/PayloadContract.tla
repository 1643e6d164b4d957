-------------------------- MODULE PayloadContract --------------------------
(***************************************************************************)
(* What gpk/gpk_connection.cpp promises about a payload given to           *)
(* connectionPushData, with no queues, packing, keys, clock or datagrams:  *)
(* it is transmitted under MessageIds, may arrive, and its fate is decided *)
(* once.  A step of the connection moves any number of payloads at a time, *)
(* each by at most one of the steps below.                                 *)
(***************************************************************************)
CONSTANTS Payloads, Nobody, MayLose

VARIABLES
    owner,    \* the endpoint that pushed the payload
    fate,     \* none, live, then confirmed, expired or lost
    ids,      \* the MessageIds it was transmitted under
    arrived   \* whether a copy has reached the peer

vars == <<owner, fate, ids, arrived>>

Init ==
    /\ owner = [p \in Payloads |-> Nobody]
    /\ fate = [p \in Payloads |-> "none"]
    /\ ids = [p \in Payloads |-> {}]
    /\ arrived = [p \in Payloads |-> FALSE]

Keeps(p) == owner'[p] = owner[p]

Idle(p) ==
    /\ Keeps(p)
    /\ fate'[p] = fate[p] /\ ids'[p] = ids[p] /\ arrived'[p] = arrived[p]

Offer(p) ==
    /\ fate[p] = "none" /\ fate'[p] = "live"
    /\ owner[p] = Nobody /\ owner'[p] # Nobody
    /\ ids'[p] = ids[p] /\ arrived'[p] = arrived[p]

\* Only what is live is transmitted, under one more MessageId (or one it has had).
Transmit(p) ==
    /\ Keeps(p)
    /\ fate[p] = "live"
    /\ fate'[p] = "live" \/ (MayLose /\ fate'[p] = "lost")
    /\ \E x \in ids'[p] : ids'[p] = ids[p] \cup {x}
    /\ arrived'[p] = arrived[p]

\* Whatever arrives has been transmitted; it may arrive again, and after its fate is decided.
Arrive(p) ==
    /\ Keeps(p)
    /\ ids[p] # {}
    /\ arrived'[p]
    /\ fate'[p] = fate[p] /\ ids'[p] = ids[p]

\* A confirmation names a MessageId of something of the same endpoint that has arrived.
Confirm(p) ==
    /\ Keeps(p)
    /\ fate[p] = "live" /\ fate'[p] = "confirmed"
    /\ \E q \in Payloads : owner[q] = owner[p] /\ arrived[q] /\ ids[q] \cap ids[p] # {}
    /\ ids'[p] = ids[p] /\ arrived'[p] = arrived[p]

\* Nothing is given up untried.
GiveUp(p) ==
    /\ Keeps(p)
    /\ fate[p] = "live" /\ fate'[p] = "expired"
    /\ ids[p] # {}
    /\ ids'[p] = ids[p] /\ arrived'[p] = arrived[p]

Next ==
    \A p \in Payloads :
        Idle(p) \/ Offer(p) \/ Transmit(p) \/ Arrive(p) \/ Confirm(p) \/ GiveUp(p)

Spec == Init /\ [][Next]_vars
=============================================================================
