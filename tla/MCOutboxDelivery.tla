--------------------------- MODULE MCOutboxDelivery ---------------------------
(* Small instances of the outbox for TLC.                                   *)
EXTENDS OutboxDelivery, TLC

CONSTANTS d1, d2, w1, w2

TwoAttempts == w1 :> 2 @@ w2 :> 2

=============================================================================
