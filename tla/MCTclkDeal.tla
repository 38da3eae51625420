----------------------------- MODULE MCTclkDeal -----------------------------
(* One offer of Alice, which expires at 1, is to be claimed by 2 and can be    *)
(* refunded from RefundAfter on.  A post takes at most one unit of the clock,  *)
(* and MaxTrouble counts losses, replays, cancels and Carol's acceptance.      *)
EXTENDS TclkDeal

CONSTANT RefundAfter

MCOffer ==
    [from |-> Alice, role |-> "payer", lock |-> "hash", id |-> "o1", rails |-> {"paper"},
     expiresMs |-> 1, claimByMs |-> 2, refundAfterMs |-> RefundAfter]
=============================================================================
