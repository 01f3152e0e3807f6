---------------------------- MODULE TicketQueue ----------------------------
(***************************************************************************)
(* What FixedMpmcRing promises its users (the emulated vkLatencySleepNV     *)
(* queue and VulkanFlex's completion feedback): a FIFO of tickets in        *)
(* reservation order.  A producer first reserves a ticket for its payload   *)
(* and later publishes it; a consumer claims the oldest unclaimed ticket,   *)
(* and only once it is published, and later delivers the payload the ticket *)
(* was reserved for, once.  At most Capacity tickets are undelivered.       *)
(* Nothing here knows about cells, sequence words or retry loops.           *)
(***************************************************************************)
EXTENDS Integers

CONSTANTS Capacity, Values

VARIABLES
    accepted,   \* payload of every reserved ticket, indexed by ticket
    reserved,   \* number of tickets reserved so far
    published,  \* the tickets whose payload is visible
    claimed,    \* number of tickets claimed so far
    delivered   \* set of <<ticket, payload handed to the consumer>>

qvars == <<accepted, reserved, published, claimed, delivered>>

Released(k) == \E d \in delivered : d[1] = k

Init ==
    /\ accepted = [k \in {} |-> 0]
    /\ reserved = 0
    /\ published = {}
    /\ claimed = 0
    /\ delivered = {}

\* The slot of ticket reserved is free: first lap, or its last user is done.
Reserve(v) ==
    /\ reserved < Capacity \/ Released(reserved - Capacity)
    /\ accepted' = [k \in 0 .. reserved |-> IF k = reserved THEN v ELSE accepted[k]]
    /\ reserved' = reserved + 1
    /\ UNCHANGED <<published, claimed, delivered>>

Publish(k) ==
    /\ k < reserved
    /\ k \notin published
    /\ published' = published \cup {k}
    /\ UNCHANGED <<accepted, reserved, claimed, delivered>>

Claim ==
    /\ claimed \in published
    /\ claimed' = claimed + 1
    /\ UNCHANGED <<accepted, reserved, published, delivered>>

Deliver(k) ==
    /\ k < claimed
    /\ ~Released(k)
    /\ delivered' = delivered \cup {<<k, accepted[k]>>}
    /\ UNCHANGED <<accepted, reserved, published, claimed>>

\* reset() is only meaningful between uses: it forgets undelivered tickets.
Reset ==
    /\ \A k \in 0 .. reserved - 1 : k \in published
    /\ \A k \in 0 .. claimed - 1 : Released(k)
    /\ accepted' = [k \in {} |-> 0]
    /\ reserved' = 0
    /\ published' = {}
    /\ claimed' = 0
    /\ delivered' = {}

Next ==
    \/ \E v \in Values : Reserve(v)
    \/ \E k \in 0 .. reserved - 1 : Publish(k) \/ Deliver(k)
    \/ Claim
    \/ Reset

Spec == Init /\ [][Next]_qvars
=============================================================================
