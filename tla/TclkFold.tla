------------------------------ MODULE TclkFold ------------------------------
(***************************************************************************)
(* The fold of src/technocore/tclk.py: a reader walks a list of venue      *)
(* records and derives the state of one deal.  fold() is a loop over the   *)
(* records, so the fold of a transcript is a behaviour of this module: one *)
(* step per record, the state after the step being the Fold object.        *)
(*                                                                         *)
(* Records come in any order with any stamps, as fold() takes any list.    *)
(* Data is abstract: a contract id is the tuple it commits to (the hash is *)
(* collision free), a deal room is the contract it is derived from, a      *)
(* frame is a record with every field, None where the JSON has no key.     *)
(***************************************************************************)
EXTENDS TclkTerms

CONSTANTS
    Dids,                \* the did:key identities that sign
    Offers,              \* offers a reader may fold a transcript against
    HashStatements,      \* 0x + 64 hex
    PointStatements,     \* 0x + 66 hex
    Secrets,             \* 0x + 64 hex
    StatementOf,         \* sha256: the statement of each secret
    Refs,                \* ref strings: offer ids and lock references
    Unhashable,          \* ref values that are JSON arrays
    Falsy,               \* ref values that count as no ref: "", 0, []
    Records              \* the venue records a reader may be given

Statements == HashStatements \cup PointStatements

OfferType == [from : Dids, role : {"payer", "payee"}, lock : {"hash", "point"},
              id : Refs, rails : SUBSET STRING, expiresMs : Nat, refundAfterMs : Nat]

\* A decoded record: who signed it and when, in units of 1/Second seconds.
\* `did` is an abbreviation in a Message and a full DID in an ExportedRecord;
\* `room` is None on both, and set only by a caller that wraps them.
RecordsAreTyped ==
    \A r \in Records : /\ r.signed \in BOOLEAN
                       /\ r.stamp \in Nat \cup {None}
                       /\ r.frame # None
                       /\ r.frame.from \in Dids

ASSUME OfferAssumption == Offers \subseteq OfferType

ASSUME RecordAssumption == RecordsAreTyped

ASSUME HashAssumption ==
    /\ StatementOf \in [Secrets -> HashStatements]
    /\ HashStatements \cap PointStatements = {}

ASSUME NoneAssumption ==
    None \notin Nat \cup Dids \cup Statements \cup Secrets \cup Refs \cup Unhashable

-----------------------------------------------------------------------------
(* Frames: FRAME_FIELDS and _validate_frame. *)

Required == [offer     |-> {"nonce"},
             accept    |-> {"ref", "statement", "contract", "nonce"},
             lock      |-> {"contract", "rail", "ref"},
             reveal    |-> {"contract", "secret"},
             refund    |-> {"contract"},
             cancel    |-> {"contract"},
             receipt   |-> {"contract"},
             heartbeat |-> {"contract", "nonce"}]

Optional == [reveal |-> {"ref"}, refund |-> {"ref"}, receipt |-> {"rail", "ref"}]

Fields == {"ref", "statement", "contract", "nonce", "rail", "secret"}

\* Every required key is there, no unknown one is, and the values have the
\* shape _validate_frame checks.  `ref` is checked in an accept only.
ValidFrame(f) ==
    /\ f.type \in DOMAIN Required
    /\ \A k \in Required[f.type] : f[k] # None
    /\ \A k \in Fields \ Required[f.type] :
          f[k] # None => f.type \in DOMAIN Optional /\ k \in Optional[f.type]
    /\ f.type = "accept" => f.ref \in Refs /\ f.statement \in Statements
    /\ f.type = "reveal" => f.secret \in Secrets

\* contract_id: the id binds the offer and the accepter's core.
ContractId(offer, f) == <<offer, f.from, f.ref, f.statement, f.nonce>>

\* deal_room
DealRoom(c) == <<"mb-p-tclk", c>>

\* _statement_fits
StatementFits(kind, statement) ==
    \/ kind = "hash" /\ statement \in HashStatements
    \/ kind = "point" /\ statement \in PointStatements

\* opens: only a sha256 statement is ever opened.
Opens(s, statement) == s \in Secrets /\ StatementOf[s] = statement

\* _record_ms: the stamp is truncated to the whole second it falls in.
WholeSecond(stamp) == stamp - (stamp % Second)
When(r) == WholeSecond(r.stamp)

-----------------------------------------------------------------------------
VARIABLES
    offer,               \* Fold.offer
    status,              \* Fold.status
    contract,            \* Fold.contract
    accept,              \* Fold.accept, a frame or None
    lock,                \* Fold.lock, a frame or None
    secret,              \* Fold.secret
    seen,                \* Fold.seen, fingerprints
    last,                \* signer and verdict of the last record: "rejected" is
                         \* an append to Fold.rejected, "raised" an exception
                         \* that leaves fold(), which then returns no Fold
    moved                \* history: signer, stamp and room of the record that
                         \* last changed the status

deal == <<offer, status, contract, accept, lock, secret, moved>>
vars == <<offer, status, contract, accept, lock, secret, seen, last, moved>>

Raised == last.verdict = "raised"

Terminal == {"claimed", "refunded", "cancelled"}

\* Fold.payer and Fold.payee
Accepter == IF accept = None THEN None ELSE accept.from
Payer == IF offer.role = "payer" THEN offer.from ELSE Accepter
Payee == IF offer.role = "payee" THEN offer.from ELSE Accepter

\* Mutation: the sender is left out of the fingerprint.
MutFingerprint(f) == <<f.type, f.nonce, f.secret, f.ref, None>>

Fingerprint(f) == <<f.type, f.nonce, f.secret, f.ref, f.from>>

\* The record holds a frame the signer vouches for, at a usable time.
Usable(r) ==
    /\ ValidFrame(r.frame)
    /\ r.signed
    /\ r.frame.from = r.did
    /\ r.stamp # None

\* A set cannot hold a fingerprint with a JSON array in it.
Hashable(f) == f.ref \notin Unhashable

Duplicate(f) == f.type # "heartbeat" /\ Fingerprint(f) \in seen

\* The record gets past the duplicate check, and is remembered.
Considered(r) ==
    /\ ~Raised
    /\ Usable(r)
    /\ r.frame.type # "offer"
    /\ Hashable(r.frame)
    /\ ~Duplicate(r.frame)

Remember(r, verdict) ==
    /\ seen' = seen \cup {Fingerprint(r.frame)}
    /\ last' = [did |-> r.did, verdict |-> verdict]

\* Mutation: anyone may send.
MutInDealOfAnyone(r) ==
    /\ status \notin Terminal
    /\ contract # None
    /\ r.frame.contract = contract
    /\ r.room \in {None, DealRoom(contract)}

\* A post-accept frame of a live deal, from a party, in the deal's room.
InDeal(r) ==
    /\ status \notin Terminal
    /\ contract # None
    /\ r.frame.contract = contract
    /\ r.room \in {None, DealRoom(contract)}
    /\ r.frame.from \in {Payer, Payee}

\* An absent or falsy ref is not compared.
RefMatches(f) == f.ref \in {None, lock.ref} \cup Falsy

CanAccept(r) ==
    /\ r.frame.type = "accept"
    /\ status = "proposed"
    /\ r.room \in {None, OffersRoom}
    /\ r.frame.ref = offer.id
    /\ r.frame.from # offer.from
    /\ When(r) < offer.expiresMs
    /\ StatementFits(offer.lock, r.frame.statement)
    /\ r.frame.contract = ContractId(offer, r.frame)

\* Mutation: any rail will do.
MutLockOnAnyRail(r) ==
    /\ r.frame.type = "lock"
    /\ InDeal(r)
    /\ status = "accepted"
    /\ r.frame.from = Payer
    /\ When(r) < offer.refundAfterMs

CanLock(r) ==
    /\ r.frame.type = "lock"
    /\ InDeal(r)
    /\ status = "accepted"
    /\ r.frame.from = Payer
    /\ r.frame.rail \in offer.rails
    /\ When(r) < offer.refundAfterMs

CanReveal(r) ==
    /\ r.frame.type = "reveal"
    /\ InDeal(r)
    /\ status = "locked"
    /\ r.frame.from = Payee
    /\ RefMatches(r.frame)
    /\ When(r) < offer.refundAfterMs
    /\ Opens(r.frame.secret, accept.statement)

\* Mutation: a refund does not wait for the deadline.
MutRefundAnyTime(r) ==
    /\ r.frame.type = "refund"
    /\ InDeal(r)
    /\ status = "locked"
    /\ r.frame.from = Payer
    /\ RefMatches(r.frame)

CanRefund(r) ==
    /\ r.frame.type = "refund"
    /\ InDeal(r)
    /\ status = "locked"
    /\ r.frame.from = Payer
    /\ RefMatches(r.frame)
    /\ When(r) >= offer.refundAfterMs

\* Mutation: a locked deal can be cancelled.
MutCancelLocked(r) ==
    /\ r.frame.type = "cancel"
    /\ InDeal(r)
    /\ status \in {"proposed", "accepted", "locked"}

CanCancel(r) ==
    /\ r.frame.type = "cancel"
    /\ InDeal(r)
    /\ status \in {"proposed", "accepted"}

CanHeartbeat(r) ==
    /\ r.frame.type = "heartbeat"
    /\ InDeal(r)
    /\ status \in {"accepted", "locked"}

-----------------------------------------------------------------------------
Init ==
    /\ offer \in Offers
    /\ status = "proposed"
    /\ contract = None /\ accept = None /\ lock = None /\ secret = None
    /\ seen = {}
    /\ last = [did |-> None, verdict |-> "none"]
    /\ moved = [did |-> offer.from, stamp |-> 0, room |-> None]

\* The status changes on record r.
MoveTo(r, newStatus) ==
    /\ status' = newStatus
    /\ moved' = [did |-> r.did, stamp |-> r.stamp, room |-> r.room]
    /\ Remember(r, "applied")

Accept(r) ==
    /\ Considered(r) /\ CanAccept(r)
    /\ MoveTo(r, "accepted")
    /\ accept' = r.frame
    /\ contract' = r.frame.contract
    /\ UNCHANGED <<offer, lock, secret>>

Lock(r) ==
    /\ Considered(r) /\ CanLock(r)
    /\ MoveTo(r, "locked")
    /\ lock' = r.frame
    /\ UNCHANGED <<offer, contract, accept, secret>>

\* Mutation: the frame is kept in place of its secret.
MutRevealFrame(r) ==
    /\ Considered(r) /\ CanReveal(r)
    /\ MoveTo(r, "claimed")
    /\ secret' = r.frame
    /\ UNCHANGED <<offer, contract, accept, lock>>

Reveal(r) ==
    /\ Considered(r) /\ CanReveal(r)
    /\ MoveTo(r, "claimed")
    /\ secret' = r.frame.secret
    /\ UNCHANGED <<offer, contract, accept, lock>>

Refund(r) ==
    /\ Considered(r) /\ CanRefund(r)
    /\ MoveTo(r, "refunded")
    /\ UNCHANGED <<offer, contract, accept, lock, secret>>

Cancel(r) ==
    /\ Considered(r) /\ CanCancel(r)
    /\ MoveTo(r, "cancelled")
    /\ UNCHANGED <<offer, contract, accept, lock, secret>>

Heartbeat(r) ==
    /\ Considered(r) /\ CanHeartbeat(r)
    /\ Remember(r, "neutral")
    /\ UNCHANGED deal

\* Every other early return of _apply, a receipt's included.
Reject(r) ==
    /\ Considered(r)
    /\ ~(\/ CanAccept(r) \/ CanLock(r) \/ CanReveal(r)
         \/ CanRefund(r) \/ CanCancel(r) \/ CanHeartbeat(r))
    /\ Remember(r, "rejected")
    /\ UNCHANGED deal

\* Rejected before _apply, or as a duplicate: nothing is remembered.  An offer
\* frame is skipped: the offer is the fold's input.
Skip(r) ==
    /\ ~Raised
    /\ ~Usable(r) \/ r.frame.type = "offer" \/ (Hashable(r.frame) /\ Duplicate(r.frame))
    /\ last' = [did |-> r.did,
                verdict |-> IF Usable(r) /\ r.frame.type = "offer"
                            THEN "ignored" ELSE "rejected"]
    /\ UNCHANGED <<deal, seen>>

\* `fingerprint in state.seen` raises TypeError out of fold().  Other frames raise
\* out of it too (a paymentKey of the wrong shape in contract_id, text that cannot
\* be encoded or nests too deep); their fold ends in the same way.
Raise(r) ==
    /\ ~Raised
    /\ Usable(r) /\ r.frame.type # "offer" /\ ~Hashable(r.frame)
    /\ last' = [did |-> r.did, verdict |-> "raised"]
    /\ UNCHANGED <<deal, seen>>

FoldRecord(r) ==
    \/ Accept(r) \/ Lock(r) \/ Reveal(r) \/ Refund(r) \/ Cancel(r)
    \/ Heartbeat(r) \/ Reject(r) \/ Skip(r) \/ Raise(r)

Next == \E r \in Records : FoldRecord(r)

Spec == Init /\ [][Next]_vars
-----------------------------------------------------------------------------
(* Properties. *)

TypeOK ==
    /\ offer \in Offers
    /\ status \in Terminal \cup {"proposed", "accepted", "locked"}
    /\ secret \in Secrets \cup {None}
    /\ moved.stamp \in Nat
    /\ last.verdict \in {"none", "applied", "neutral", "rejected", "ignored", "raised"}

\* Whatever mixture of valid, forged, misplaced and repeated frames was folded,
\* the status is backed by the frames that were kept: an acceptance by another
\* agent that binds exactly these terms, a lock by the payer of that very
\* contract on a listed rail, a secret that opens the accepted statement.
Evidence ==
    /\ status = "proposed" => accept = None /\ contract = None
    /\ status # "proposed" =>
          /\ accept # None
          /\ accept.from \in Dids \ {offer.from}
          /\ accept.ref = offer.id
          /\ StatementFits(offer.lock, accept.statement)
          /\ contract = ContractId(offer, accept)
    /\ status \in {"locked", "claimed", "refunded"} =>
          lock # None /\ lock.from = Payer /\ lock.contract = contract /\ lock.rail \in offer.rails
    /\ status \in {"proposed", "accepted"} => lock = None
    /\ IF status = "claimed" THEN Opens(secret, accept.statement) ELSE secret = None

\* A deal is settled by the right party, by the true time of its record: never
\* refunded before the deadline, and never claimed a second or more after it, or
\* after it at all if the deadline is on a whole second (_record_ms).
SettledOnTime ==
    /\ status = "claimed" =>
          /\ moved.did = Payee
          /\ moved.stamp < offer.refundAfterMs + Second
          /\ offer.refundAfterMs % Second = 0 => moved.stamp < offer.refundAfterMs
    /\ status = "refunded" => moved.did = Payer /\ moved.stamp >= offer.refundAfterMs

\* A record that names its room counts in that room only: the acceptance in
\* the offers room, everything later in the room of the accepted contract.
NamedRoomIsBound ==
    status # "proposed" /\ moved.room # None =>
        moved.room = IF status = "accepted" THEN OffersRoom ELSE DealRoom(contract)

\* The builders offer PTLC deals (lock "point"), and opens() is sha256 only: a
\* point deal can be accepted, locked, refunded, but never claimed.
PointDealsAreNeverClaimed == offer.lock = "point" => status # "claimed"

\* The first acceptance that fits is the deal's: no later record, from anyone,
\* replaces the counterparty or the contract (status guard of accept).
AcceptanceIsFinal == [][accept # None => UNCHANGED <<accept, contract>>]_vars

\* Nobody but the payer and the payee moves an accepted deal, or uses up a
\* fingerprint that one of them may still need (`from` is in the fingerprint).
OutsidersAreHarmless ==
    [][status # "proposed" /\ last'.did \notin {Payer, Payee} =>
          /\ UNCHANGED deal
          /\ \A f \in seen' \ seen : f[5] \notin {Payer, Payee}]_vars

\* "Replays are no-ops": what moves the deal was never considered before.
ReplaysAreNoOps == [][deal' # deal => seen' # seen]_vars

\* The state diagram of the comment above class Fold, but for the second in which
\* a deadline lies.
Contract == INSTANCE TclkContract WITH
    partner <- Accepter,
    statement <- IF accept = None THEN None ELSE accept.statement,
    actor <- moved.did, at <- moved.stamp
ContractSpec == Contract!Spec

RefundFingerprint(ref) == <<"refund", None, None, ref, Payer>>

\* A refund may name the lock's ref or not, so the payer has two.  As long as it
\* has not spent both (a refund that is rejected as early is spent), some refund
\* of a locked deal counts, whatever else was folded before (_apply remembers the
\* fingerprint of every frame it rejects, and looks at no contract in it).
RefundStaysPossible ==
    /\ status = "locked" /\ ~Raised
    /\ \E ref \in {None, lock.ref} : RefundFingerprint(ref) \notin seen
    => \E r \in Records : Considered(r) /\ CanRefund(r)

\* Whoever may sign a lock may also sign both refunds of it, later than every
\* deadline: what the readers are given holds them.
RefundsCanBeSent ==
    \A l \in Records : l.frame.type = "lock" /\ Hashable(l.frame) =>
        \A ref \in {None, l.frame.ref} : \E r \in Records :
            /\ Usable(r) /\ r.frame.type = "refund" /\ r.frame.ref = ref
            /\ r.frame.from = l.frame.from /\ r.frame.contract = l.frame.contract
            /\ r.room \in {None, DealRoom(r.frame.contract)}
            /\ \A o \in Offers : When(r) >= o.refundAfterMs

\* tclk.py:495 "never raises: a poll that dies on one malformed frame stops
\* watching the deal".
FoldNeverRaises == ~Raised

\* tclk.py:499 "locked --reveal(payee, secret opens statement,
\* now < refundAfterMs)--> claimed".
ClaimIsInTime == status = "claimed" => moved.stamp < offer.refundAfterMs

\* tclk.py:501 "proposed|accepted --cancel(either party)--> cancelled".
ProposedIsCancelled ==
    [][\A r \in Records :
          /\ status = "proposed" /\ Considered(r) /\ FoldRecord(r)
          /\ r.frame.type = "cancel" /\ r.frame.from = offer.from
          /\ \E a \in Records : r.frame.contract = ContractId(offer, a.frame)
          => status' = "cancelled"]_vars
=============================================================================
