----------------------------- MODULE MCTclkFold -----------------------------
(* Records around three offers of A (A pays, A is paid, A pays under a point  *)
(* lock), accepted by B or by C, with the frames that are out of place.  Two  *)
(* stamp units make a second; the refund deadline of the second offer is on a *)
(* whole second, those of the others are in mid-second.                       *)
EXTENDS TclkFold, FiniteSets, TLC

CONSTANTS A, B, C, MaxNoise, h1, h2, p1, s1, s2, o1, o2, o3, l1, l2, bad, empty, n1, forged

MCOffer(id, role, kind, deadline) ==
    [from |-> A, role |-> role, lock |-> kind, id |-> id, rails |-> {"paper"},
     expiresMs |-> 2, refundAfterMs |-> deadline]
Offer1 == MCOffer(o1, "payer", "hash", 5)
Offer2 == MCOffer(o2, "payee", "hash", 6)
Offer3 == MCOffer(o3, "payer", "point", 5)
MCOffers == {Offer1, Offer2, Offer3}
MCStatementOf == s1 :> h1 @@ s2 :> h2

Blank(type, from) ==
    [type |-> type, from |-> from, contract |-> None, ref |-> None, nonce |-> None,
     secret |-> None, statement |-> None, rail |-> None]

AcceptOf(o, from, st) ==
    LET f == [Blank("accept", from) EXCEPT !.ref = o.id, !.statement = st, !.nonce = n1]
    IN  [f EXCEPT !.contract = ContractId(o, f)]

Deal1 == AcceptOf(Offer1, B, h1).contract
Deal2 == AcceptOf(Offer2, B, h1).contract
Deal3 == AcceptOf(Offer3, B, p1).contract

LockOf(c, from) ==
    [Blank("lock", from) EXCEPT !.contract = c, !.rail = "paper", !.ref = l1]
RevealOf(c, from, s) == [Blank("reveal", from) EXCEPT !.contract = c, !.secret = s]
RefundOf(c, from, ref) == [Blank("refund", from) EXCEPT !.contract = c, !.ref = ref]
CancelOf(c, from) == [Blank("cancel", from) EXCEPT !.contract = c]

Signed(f, room, stamp) ==
    [frame |-> f, did |-> f.from, signed |-> TRUE, room |-> room, stamp |-> stamp]

AcceptRecords ==
    {Signed(f, OffersRoom, 0) : f \in {AcceptOf(Offer1, A, h1), AcceptOf(Offer1, B, h1),
        AcceptOf(Offer1, C, h1), AcceptOf(Offer2, B, h1), AcceptOf(Offer3, B, p1),
        AcceptOf(Offer3, B, h1), [AcceptOf(Offer1, B, h1) EXCEPT !.contract = forged]}}
    \cup {Signed(AcceptOf(Offer1, B, h1), DealRoom(Deal1), 0),
          Signed(AcceptOf(Offer1, B, h1), None, 0),
          Signed(AcceptOf(Offer1, C, h1), OffersRoom, 3)}

\* The frames that settle the deal c between the payer p and the payee q.
DealRecords(c, p, q) ==
    {Signed(LockOf(c, p), DealRoom(c), 0),
     Signed(RevealOf(c, q, s1), DealRoom(c), 5), Signed(RevealOf(c, q, s1), DealRoom(c), 6),
     Signed(RefundOf(c, p, None), DealRoom(c), 5), Signed(RefundOf(c, p, None), DealRoom(c), 6),
     Signed(RefundOf(c, p, l1), DealRoom(c), 6)}

OddRecords ==
    {Signed(LockOf(Deal1, A), DealRoom(Deal1), 6), Signed(LockOf(Deal1, B), DealRoom(Deal1), 0),
     Signed(CancelOf(Deal1, B), DealRoom(Deal1), 0),
     Signed(CancelOf(Deal1, A), DealRoom(Deal1), 0),
     Signed(CancelOf(Deal1, C), DealRoom(Deal1), 0),
     Signed(LockOf(Deal1, A), OffersRoom, 0), Signed(LockOf(Deal1, A), None, 0),
     Signed([LockOf(Deal1, A) EXCEPT !.rail = "other"], DealRoom(Deal1), 0),
     Signed(RevealOf(Deal1, B, s2), DealRoom(Deal1), 0),
     Signed(RevealOf(Deal1, A, s1), DealRoom(Deal1), 0),
     Signed(RefundOf(Deal1, B, None), DealRoom(Deal1), 6),
     Signed(RefundOf(Deal1, B, l1), DealRoom(Deal1), 6),
     Signed(RefundOf(Deal1, C, None), DealRoom(Deal1), 6),
     Signed(RefundOf(Deal1, C, l1), DealRoom(Deal1), 6),
     Signed(RefundOf(Deal1, A, empty), DealRoom(Deal1), 6),
     Signed(RefundOf(Deal1, A, l2), DealRoom(Deal1), 6),
     Signed(RefundOf(Deal1, C, bad), DealRoom(Deal1), 0),
     Signed([Blank("heartbeat", A) EXCEPT !.contract = Deal1, !.nonce = n1], DealRoom(Deal1), 0),
     Signed([Blank("receipt", B) EXCEPT !.contract = Deal1], DealRoom(Deal1), 6),
     Signed([Blank("offer", A) EXCEPT !.nonce = n1], OffersRoom, 0)}

\* No signature, somebody else's, an abbreviated one, no stamp, a missing key.
UnusableRecords ==
    {[Signed(CancelOf(Deal1, A), DealRoom(Deal1), 0) EXCEPT !.signed = FALSE],
     [Signed(CancelOf(Deal1, A), DealRoom(Deal1), 0) EXCEPT !.did = C],
     [Signed(CancelOf(Deal1, A), DealRoom(Deal1), 0) EXCEPT !.did = "z6Mk...AAAA"],
     [Signed(CancelOf(Deal1, A), DealRoom(Deal1), 0) EXCEPT !.stamp = None],
     Signed([CancelOf(Deal1, A) EXCEPT !.contract = None], DealRoom(Deal1), 0)}

MCRecords ==
    AcceptRecords \cup DealRecords(Deal1, A, B) \cup DealRecords(Deal2, B, A)
    \cup DealRecords(Deal3, A, B) \cup OddRecords \cup UnusableRecords

ASSUME RefundsCanBeSentHere == RefundsCanBeSent

\* At most MaxNoise frames were considered and did not move the deal.
Progress == [proposed |-> 0, accepted |-> 1, locked |-> 2, claimed |-> 3, refunded |-> 3,
             cancelled |-> 2]
NoiseBound == Cardinality(seen) <= Progress[status] + MaxNoise
=============================================================================
