--------------------------- MODULE DeliveryPromise ---------------------------
(***************************************************************************)
(* What the outbox promises about an event, with no leases, workers or     *)
(* clocks: it may be received any number of times, even after it was given *)
(* up; it is published only after it was received; and published or given  *)
(* up is said once and never taken back.                                   *)
(***************************************************************************)
CONSTANT Events

VARIABLES
    committed,  \* events handed to the outbox
    received,   \* events the receiver has
    published,  \* events said to be delivered
    abandoned   \* events given up

Init == committed = {} /\ received = {} /\ published = {} /\ abandoned = {}

Commit(e) ==
    /\ e \notin committed
    /\ committed' = committed \cup {e}
    /\ UNCHANGED <<received, published, abandoned>>

Receive(e) ==
    /\ e \in committed
    /\ received' = received \cup {e}
    /\ UNCHANGED <<committed, published, abandoned>>

Publish(e) ==
    /\ e \in received \ (published \cup abandoned)
    /\ published' = published \cup {e}
    /\ UNCHANGED <<committed, received, abandoned>>

Abandon(e) ==
    /\ e \in committed \ (published \cup abandoned)
    /\ abandoned' = abandoned \cup {e}
    /\ UNCHANGED <<committed, received, published>>

Next == \E e \in Events : Commit(e) \/ Receive(e) \/ Publish(e) \/ Abandon(e)

Spec == Init /\ [][Next]_<<committed, received, published, abandoned>>
=============================================================================
