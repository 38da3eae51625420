----------------------------- MODULE Tclk_proofs -----------------------------
(***************************************************************************)
(* Proofs about TclkFold, for every set of offers, identities and records, *)
(* and about TclkDeal, for every offer of a payer, every clock and any     *)
(* bound; RevealsArePaid alone asks that a post takes no longer than the   *)
(* claim window.                                                           *)
(*                                                                         *)
(* The fold.  The inductive invariant is IInv: the kept frames back the    *)
(* status (Evidence), and the last move is by the right party at the right *)
(* time (SettledOnTime).  A record that does not move the deal leaves both *)
(* alone (Quiet); the five that do get one lemma each.                     *)
(*                                                                         *)
(* The deal.  Folds says what one record does to a fold; Plot tells the    *)
(* state of a deal from the first n lines of its room, without a fold:     *)
(* where the acceptance ended and where the lock was settled.  DealInv     *)
(* says that both agents are where the rooms have brought them (Follows),  *)
(* and that no secret is out before its lock or too late (Redeemable).     *)
(***************************************************************************)
EXTENDS TclkDeal, TclkFold, SequenceTheorems, TLAPS

IInv == TypeOK /\ Evidence /\ SettledOnTime

\* The step leaves the deal alone, whatever it remembers or reports.
Quiet(r) == Heartbeat(r) \/ Reject(r) \/ Skip(r) \/ Raise(r)

Verdicts == {"none", "applied", "neutral", "rejected", "ignored", "raised"}

\* Truncation to a whole second stays a natural number (_record_ms).
LEMMA WholeSecondType ==
    ASSUME NEW t \in Nat
    PROVE  WholeSecond(t) \in Nat
<1>1. t % Second \in 0 .. (Second - 1) /\ t = Second * (t \div Second) + (t % Second)
      BY SecondAssumption
<1>2. t \div Second \in Nat
      BY SecondAssumption
<1>3. t - (t % Second) = Second * (t \div Second)
      BY <1>1, <1>2, SecondAssumption
<1>4. Second * (t \div Second) \in Nat
      BY <1>2, SecondAssumption
<1> QED BY <1>3, <1>4 DEF WholeSecond

\* A stamp in whole seconds and the rest.
LEMMA StampParts ==
    ASSUME NEW t \in Nat
    PROVE  \E n \in Nat : \E a \in Nat :
               t = Second * n + a /\ a < Second /\ WholeSecond(t) = Second * n
<1>1. /\ t \div Second \in Nat /\ t % Second \in 0 .. (Second - 1)
      /\ t = Second * (t \div Second) + (t % Second)
      BY SecondAssumption
<1>2. Second * (t \div Second) \in Nat
      BY <1>1, SecondAssumption
<1>3. WholeSecond(t) = Second * (t \div Second) /\ t % Second < Second /\ t % Second \in Nat
      BY <1>1, <1>2, SecondAssumption DEF WholeSecond
<1> QED BY <1>1, <1>3

\* Products with Second are in the order of their other factor.
LEMMA SecondsAreOrdered ==
    ASSUME NEW m \in Nat, NEW n \in Nat, m < n
    PROVE  Second * m + Second <= Second * n
<1>1. PICK k \in Nat : n = m + 1 + k
  <2>1. n - (m + 1) \in Nat /\ n = m + 1 + (n - (m + 1))
        OBVIOUS
  <2> QED BY <2>1
<1>2. Second * n = Second * m + Second + Second * k
      BY <1>1, SecondAssumption
<1>3. Second * k \in Nat /\ Second * m \in Nat /\ Second \in Nat
      BY SecondAssumption
<1> QED BY <1>2, <1>3

\* A truncated stamp before a deadline: the stamp itself is less than a second
\* late, and in time if the deadline is on a whole second.
LEMMA EarlySecond ==
    ASSUME NEW t \in Nat, NEW d \in Nat, WholeSecond(t) < d
    PROVE  /\ t < d + Second
           /\ d % Second = 0 => t < d
           /\ \A n \in Nat : ~(d <= n * Second /\ n * Second <= t)
<1>1. PICK p \in Nat, a \in Nat :
          t = Second * p + a /\ a < Second /\ WholeSecond(t) = Second * p
      BY StampParts
<1>2. Second \in Nat /\ Second * p \in Nat
      BY SecondAssumption
<1>3. t < d + Second
      BY <1>1, <1>2
<1>4. ASSUME NEW n \in Nat, d <= n * Second, n * Second <= t
      PROVE  FALSE
  <2>1. n * Second = Second * n /\ Second * n \in Nat
        BY SecondAssumption
  <2>2. p < n
    <3>1. SUFFICES ASSUME n <= p PROVE FALSE
          OBVIOUS
    <3>2. Second * n <= Second * p
          BY <1>2, <2>1, <3>1, SecondsAreOrdered
    <3> QED BY <1>1, <1>2, <1>4, <2>1, <3>2
  <2>3. Second * p + Second <= Second * n
        BY <2>2, SecondsAreOrdered
  <2> QED BY <1>1, <1>2, <1>4, <2>1, <2>3
<1>5. ASSUME d % Second = 0, d <= t PROVE FALSE
  <2>1. d \div Second \in Nat /\ d = Second * (d \div Second) + (d % Second)
        BY SecondAssumption
  <2>2. (d \div Second) * Second = Second * (d \div Second) /\ Second * (d \div Second) \in Nat
        BY <2>1, SecondAssumption
  <2>3. d = (d \div Second) * Second
        BY <1>5, <2>1, <2>2
  <2> HIDE <1>1, <1>2
  <2> QED BY <1>4, <1>5, <2>1, <2>3
<1> QED BY <1>3, <1>4, <1>5

\* A truncated stamp at or after a deadline: so is the stamp, and a whole second
\* has begun in between.
LEMMA DueSecond ==
    ASSUME NEW t \in Nat, NEW d \in Nat, WholeSecond(t) >= d
    PROVE  t >= d /\ \E n \in 0 .. t : d <= n * Second /\ n * Second <= t
<1>1. PICK p \in Nat, a \in Nat :
          t = Second * p + a /\ a < Second /\ WholeSecond(t) = Second * p
      BY StampParts
<1>2. /\ Second \in Nat /\ Second * p \in Nat /\ p * Second = Second * p
      /\ p <= Second * p
  <2>1. Second \in Nat /\ Second * p \in Nat /\ p * Second = Second * p
        BY SecondAssumption
  <2>2. Second * p = (Second - 1) * p + p /\ (Second - 1) * p \in Nat
        BY SecondAssumption
  <2> QED BY <2>1, <2>2
<1>3. p \in 0 .. t /\ d <= p * Second /\ p * Second <= t /\ t >= d
      BY <1>1, <1>2
<1> QED BY <1>3

\* What is known of a record that gets as far as _apply.
LEMMA UsableRecord ==
    ASSUME NEW r \in Records, Usable(r)
    PROVE  /\ r.frame # None /\ r.frame.from \in Dids
           /\ r.frame.from = r.did
           /\ r.stamp \in Nat /\ When(r) \in Nat
<1>1. r.stamp \in Nat /\ r.frame # None /\ r.frame.from \in Dids
      BY RecordAssumption DEF RecordsAreTyped, Usable
<1> QED BY <1>1, WholeSecondType DEF When, Usable

\* A record is either quiet or one of the five that move the deal.
LEMMA StepCases ==
    ASSUME NEW r, FoldRecord(r)
    PROVE  \/ Quiet(r) /\ UNCHANGED deal
           \/ Accept(r) \/ Lock(r) \/ Reveal(r) \/ Refund(r) \/ Cancel(r)
BY DEF FoldRecord, Quiet, Heartbeat, Reject, Skip, Raise, deal

-----------------------------------------------------------------------------
(* Type correctness. *)

LEMMA InitType == Init => TypeOK
BY DEF Init, TypeOK, Terminal

LEMMA NextType ==
    ASSUME TypeOK, [Next]_vars
    PROVE  TypeOK'
<1>1. CASE UNCHANGED vars
      BY <1>1 DEF TypeOK, vars, Terminal
<1>2. ASSUME NEW r \in Records, FoldRecord(r)
      PROVE  TypeOK'
  <2>1. last'.verdict \in Verdicts /\ offer' = offer
        BY <1>2 DEF FoldRecord, Accept, Lock, Reveal, Refund, Cancel, Heartbeat, Reject,
                    Skip, Raise, MoveTo, Remember, Verdicts, TypeOK, deal
  <2>2. CASE UNCHANGED deal
        BY <2>1, <2>2 DEF TypeOK, deal, Verdicts, Terminal
  <2>3. ASSUME Usable(r), moved' = [did |-> r.did, stamp |-> r.stamp, room |-> r.room],
               status' \in Terminal \cup {"accepted", "locked"},
               secret' \in Secrets \cup {None}
        PROVE  TypeOK'
        BY <2>1, <2>3, UsableRecord DEF TypeOK, Verdicts, Terminal
  <2>4. CASE Accept(r)
        BY <2>3, <2>4 DEF Accept, MoveTo, Considered, TypeOK
  <2>5. CASE Lock(r)
        BY <2>3, <2>5 DEF Lock, MoveTo, Considered, TypeOK
  <2>6. CASE Reveal(r)
        BY <2>3, <2>6 DEF Reveal, MoveTo, Considered, CanReveal, Opens, Terminal, TypeOK
  <2>7. CASE Refund(r)
        BY <2>3, <2>7 DEF Refund, MoveTo, Considered, Terminal, TypeOK
  <2>8. CASE Cancel(r)
        BY <2>3, <2>8 DEF Cancel, MoveTo, Considered, Terminal, TypeOK
  <2> QED BY <1>2, <2>2, <2>4, <2>5, <2>6, <2>7, <2>8, StepCases
<1> QED BY <1>1, <1>2 DEF Next

\* Every state of the fold has its declared type.
THEOREM TypeCorrect == Spec => []TypeOK
BY InitType, NextType, PTL DEF Spec

-----------------------------------------------------------------------------
(* The status is backed by the kept frames. *)

LEMMA InitEvidence == Init => Evidence /\ SettledOnTime
BY DEF Init, Evidence, SettledOnTime

\* A step that keeps the deal keeps what is known of it.
LEMMA QuietEvidence ==
    ASSUME IInv, UNCHANGED deal
    PROVE  Evidence' /\ SettledOnTime'
BY DEF IInv, Evidence, SettledOnTime, deal, Payer, Payee, Accepter, ContractId,
       StatementFits, Opens

LEMMA AcceptEvidence ==
    ASSUME IInv, NEW r \in Records, Accept(r)
    PROVE  Evidence' /\ SettledOnTime'
<1>1. r.frame # None /\ r.frame.from \in Dids
      BY UsableRecord DEF Accept, Considered
<1>2. status = "proposed" /\ lock = None /\ secret = None
      BY DEF Accept, CanAccept, IInv, Evidence
<1>3. Evidence'
      BY <1>1, <1>2 DEF Accept, CanAccept, MoveTo, Evidence, ContractId, StatementFits
<1>4. SettledOnTime'
      BY DEF Accept, MoveTo, SettledOnTime
<1> QED BY <1>3, <1>4

LEMMA LockEvidence ==
    ASSUME IInv, NEW r \in Records, Lock(r)
    PROVE  Evidence' /\ SettledOnTime'
<1>1. r.frame # None
      BY UsableRecord DEF Lock, Considered
<1>2. Payer' = Payer
      BY DEF Lock, Payer, Accepter
<1>3. Evidence'
      BY <1>1, <1>2 DEF Lock, CanLock, InDeal, MoveTo, IInv, Evidence, ContractId,
                        StatementFits
<1>4. SettledOnTime'
      BY DEF Lock, MoveTo, SettledOnTime
<1> QED BY <1>3, <1>4

LEMMA RevealEvidence ==
    ASSUME IInv, NEW r \in Records, Reveal(r)
    PROVE  Evidence' /\ SettledOnTime'
<1>1. r.did = r.frame.from
      BY UsableRecord DEF Reveal, Considered
<1>2. Payer' = Payer /\ Payee' = Payee
      BY DEF Reveal, Payer, Payee, Accepter
<1>3. Evidence'
      BY <1>2 DEF Reveal, CanReveal, MoveTo, IInv, Evidence, ContractId, StatementFits, Opens
<1>4. SettledOnTime'
  <2>1. /\ r.stamp \in Nat /\ WholeSecond(r.stamp) < offer.refundAfterMs
        /\ offer.refundAfterMs \in Nat
        BY UsableRecord, OfferAssumption
        DEF Reveal, CanReveal, Considered, When, IInv, TypeOK, OfferType
  <2>2. /\ r.stamp < offer.refundAfterMs + Second
        /\ offer.refundAfterMs % Second = 0 => r.stamp < offer.refundAfterMs
        BY <2>1, EarlySecond
  <2> QED BY <1>1, <1>2, <2>2 DEF Reveal, CanReveal, MoveTo, SettledOnTime
<1> QED BY <1>3, <1>4

LEMMA RefundEvidence ==
    ASSUME IInv, NEW r \in Records, Refund(r)
    PROVE  Evidence' /\ SettledOnTime'
<1>1. r.did = r.frame.from
      BY UsableRecord DEF Refund, Considered
<1>2. Payer' = Payer /\ Payee' = Payee
      BY DEF Refund, Payer, Payee, Accepter
<1>3. Evidence'
      BY <1>2 DEF Refund, CanRefund, MoveTo, IInv, Evidence, ContractId, StatementFits
<1>4. SettledOnTime'
  <2>1. /\ r.stamp \in Nat /\ WholeSecond(r.stamp) >= offer.refundAfterMs
        /\ offer.refundAfterMs \in Nat
        BY UsableRecord, OfferAssumption
        DEF Refund, CanRefund, Considered, When, IInv, TypeOK, OfferType
  <2>2. r.stamp >= offer.refundAfterMs
        BY <2>1, DueSecond
  <2> QED BY <1>1, <1>2, <2>2 DEF Refund, CanRefund, MoveTo, SettledOnTime
<1> QED BY <1>3, <1>4

LEMMA CancelEvidence ==
    ASSUME IInv, NEW r \in Records, Cancel(r)
    PROVE  Evidence' /\ SettledOnTime'
<1>1. status = "accepted"
      BY DEF Cancel, CanCancel, InDeal, IInv, Evidence
<1>2. Payer' = Payer
      BY DEF Cancel, Payer, Accepter
<1>3. Evidence'
      BY <1>1, <1>2 DEF Cancel, MoveTo, IInv, Evidence, ContractId, StatementFits
<1>4. SettledOnTime'
      BY DEF Cancel, MoveTo, SettledOnTime
<1> QED BY <1>3, <1>4

LEMMA NextIInv ==
    ASSUME IInv, [Next]_vars
    PROVE  IInv'
<1>1. TypeOK'
      BY NextType DEF IInv
<1>2. CASE UNCHANGED vars
      BY <1>1, <1>2, QuietEvidence DEF IInv, vars, deal
<1>3. ASSUME NEW r \in Records, FoldRecord(r)
      PROVE  Evidence' /\ SettledOnTime'
      BY <1>3, StepCases, QuietEvidence, AcceptEvidence, LockEvidence, RevealEvidence,
         RefundEvidence, CancelEvidence
<1> QED BY <1>1, <1>2, <1>3 DEF Next, IInv

\* The strengthened invariant of the fold.
THEOREM Invariance == Spec => []IInv
<1>1. Init => IInv
      BY InitType, InitEvidence DEF IInv
<1>2. IInv /\ [Next]_vars => IInv'
      BY NextIInv
<1> QED BY <1>1, <1>2, PTL DEF Spec

\* In every transcript the status is backed by the frames that were kept.
THEOREM EvidenceHolds == Spec => []Evidence
<1>1. IInv => Evidence
      BY DEF IInv
<1> QED BY <1>1, Invariance, PTL

\* A deal is settled by the right party; its refund is at or after the deadline,
\* its claim before it, or less than a second after one inside a second.
THEOREM SettlementIsTimely == Spec => []SettledOnTime
<1>1. IInv => SettledOnTime
      BY DEF IInv
<1> QED BY <1>1, Invariance, PTL

\* opens() never opens a point statement, so a point deal is never claimed.
THEOREM PointsStayLocked == Spec => []PointDealsAreNeverClaimed
<1>1. IInv => PointDealsAreNeverClaimed
  <2>1. SUFFICES ASSUME IInv, offer.lock = "point", status = "claimed" PROVE FALSE
        BY DEF PointDealsAreNeverClaimed
  <2>2. accept.statement \in PointStatements
        BY <2>1 DEF IInv, Evidence, StatementFits
  <2>3. accept.statement \in HashStatements
        BY <2>1, HashAssumption DEF IInv, Evidence, Opens
  <2> QED BY <2>2, <2>3, HashAssumption
<1> QED BY <1>1, Invariance, PTL

\* A record that names its room moves the deal in that room only.
THEOREM NamedRoomsBind == Spec => []NamedRoomIsBound
<1>1. Init => NamedRoomIsBound
      BY DEF Init, NamedRoomIsBound
<1>2. ASSUME NamedRoomIsBound, [Next]_vars
      PROVE  NamedRoomIsBound'
  <2>1. CASE UNCHANGED deal
        BY <1>2, <2>1 DEF NamedRoomIsBound, deal, DealRoom
  <2>2. ASSUME NEW r \in Records, FoldRecord(r), ~UNCHANGED deal
        PROVE  NamedRoomIsBound'
    <3>1. CASE Accept(r)
          BY <3>1 DEF Accept, CanAccept, MoveTo, NamedRoomIsBound
    <3>2. CASE Lock(r)
          BY <3>2 DEF Lock, CanLock, InDeal, MoveTo, NamedRoomIsBound, DealRoom
    <3>3. CASE Reveal(r)
          BY <3>3 DEF Reveal, CanReveal, InDeal, MoveTo, NamedRoomIsBound, DealRoom
    <3>4. CASE Refund(r)
          BY <3>4 DEF Refund, CanRefund, InDeal, MoveTo, NamedRoomIsBound, DealRoom
    <3>5. CASE Cancel(r)
          BY <3>5 DEF Cancel, CanCancel, InDeal, MoveTo, NamedRoomIsBound, DealRoom
    <3> QED BY <2>2, <3>1, <3>2, <3>3, <3>4, <3>5, StepCases
  <2> QED BY <1>2, <2>1, <2>2 DEF Next, vars, deal
<1> QED BY <1>1, <1>2, PTL DEF Spec

\* The kept lock came in a record, in an accepted deal.
LockKept ==
    lock # None =>
        /\ contract # None
        /\ \E l \in Records : l.frame = lock /\ lock.type = "lock" /\ Hashable(lock)

LEMMA LockKeptStep ==
    ASSUME IInv, LockKept, [Next]_vars
    PROVE  LockKept'
<1>1. CASE UNCHANGED deal
      BY <1>1 DEF LockKept, deal, Hashable
<1>2. ASSUME NEW r \in Records, Accept(r) PROVE LockKept'
  <2>1. lock = None /\ lock' = lock
        BY <1>2 DEF Accept, CanAccept, IInv, Evidence
  <2> QED BY <2>1 DEF LockKept, Hashable
<1>3. ASSUME NEW r \in Records, Lock(r) PROVE LockKept'
  <2>1. /\ contract # None /\ contract' = contract
        /\ lock' = r.frame /\ r.frame.type = "lock" /\ Hashable(r.frame)
        BY <1>3 DEF Lock, CanLock, InDeal, Considered
  <2> QED BY <2>1 DEF LockKept, Hashable
<1>4. ASSUME NEW r \in Records, Reveal(r) \/ Refund(r) \/ Cancel(r) PROVE LockKept'
  <2>1. UNCHANGED <<contract, lock>>
        BY <1>4 DEF Reveal, Refund, Cancel
  <2> QED BY <2>1 DEF LockKept, Hashable
<1> QED BY <1>1, <1>2, <1>3, <1>4, StepCases DEF Next, vars, deal

\* If the payer of a lock can sign both refunds of it, with its ref and without,
\* then some refund of a locked deal counts while one of the two is not spent, in
\* every transcript that has not ended the fold with an exception.
THEOREM RefundsStayPossible ==
    ASSUME RefundsCanBeSent
    PROVE  Spec => []RefundStaysPossible
<1>1. Init => LockKept
      BY DEF Init, LockKept
<1>2. Spec => [](IInv /\ LockKept)
      BY <1>1, LockKeptStep, Invariance, PTL DEF Spec
<1>3. IInv /\ LockKept => RefundStaysPossible
  <2>1. SUFFICES ASSUME IInv, LockKept, status = "locked", ~Raised,
                        NEW ref \in {None, lock.ref}, RefundFingerprint(ref) \notin seen
                 PROVE  \E r \in Records : Considered(r) /\ CanRefund(r)
        BY DEF RefundStaysPossible
  <2>2. /\ lock # None /\ lock.from = Payer /\ lock.contract = contract /\ contract # None
        /\ \E l \in Records : l.frame = lock /\ lock.type = "lock" /\ Hashable(lock)
        BY <2>1 DEF IInv, Evidence, LockKept
  <2>3. PICK r \in Records :
            /\ Usable(r) /\ r.frame.type = "refund" /\ r.frame.ref = ref
            /\ r.frame.from = Payer /\ r.frame.contract = contract
            /\ r.room \in {None, DealRoom(contract)}
            /\ \A o \in Offers : When(r) >= o.refundAfterMs
        BY <2>1, <2>2 DEF RefundsCanBeSent
  <2>4. offer \in Offers
        BY <2>1 DEF IInv, TypeOK
  <2>5. CanRefund(r)
        BY <2>1, <2>2, <2>3, <2>4 DEF CanRefund, InDeal, RefMatches, Terminal
  <2>6. Hashable(r.frame)
        BY <2>1, <2>2, <2>3, NoneAssumption DEF Hashable
  <2>7. r.frame.nonce = None /\ r.frame.secret = None
        BY <2>3 DEF Usable, ValidFrame, Fields, Required, Optional
  <2>8. Fingerprint(r.frame) = RefundFingerprint(ref)
        BY <2>3, <2>7 DEF Fingerprint, RefundFingerprint
  <2>9. Considered(r)
        BY <2>1, <2>3, <2>6, <2>8 DEF Considered, Duplicate
  <2> QED BY <2>5, <2>9
<1> QED BY <1>2, <1>3, PTL

-----------------------------------------------------------------------------
(* What no step does. *)

\* Once there is an acceptance, no record replaces it.
THEOREM FirstAcceptanceStays == Spec => AcceptanceIsFinal
<1>1. ASSUME IInv, accept # None, [Next]_vars
      PROVE  UNCHANGED <<accept, contract>>
  <2>1. status # "proposed"
        BY <1>1 DEF IInv, Evidence
  <2>2. CASE UNCHANGED vars
        BY <2>2 DEF vars
  <2>3. ASSUME NEW r \in Records, FoldRecord(r)
        PROVE  UNCHANGED <<accept, contract>>
        BY <2>1, <2>3 DEF FoldRecord, Accept, CanAccept, Lock, Reveal, Refund, Cancel,
                          Heartbeat, Reject, Skip, Raise, deal
  <2> QED BY <1>1, <2>2, <2>3 DEF Next
<1>2. IInv /\ [Next]_vars => [accept # None => UNCHANGED <<accept, contract>>]_vars
      BY <1>1
<1> QED BY <1>2, Invariance, PTL DEF Spec, AcceptanceIsFinal

\* A record of a third party leaves an accepted deal and the fingerprints of
\* its parties alone.
THEOREM OutsidersStayOut == Spec => OutsidersAreHarmless
<1> DEFINE Harmless ==
        /\ UNCHANGED deal
        /\ \A f \in seen' \ seen : f[5] \notin {Payer, Payee}
<1>1. ASSUME [Next]_vars, ~UNCHANGED vars, status # "proposed",
             last'.did \notin {Payer, Payee}
      PROVE  Harmless
  <2>1. PICK r \in Records : FoldRecord(r)
        BY <1>1 DEF Next
  <2>2. last'.did = r.did
        BY <2>1 DEF FoldRecord, Accept, Lock, Reveal, Refund, Cancel, Heartbeat, Reject,
                    Skip, Raise, MoveTo, Remember
  <2>3. ASSUME Usable(r) PROVE r.frame.from \notin {Payer, Payee}
        BY <1>1, <2>2, <2>3 DEF Usable
  <2>4. UNCHANGED deal
        BY <1>1, <2>1, <2>3, StepCases DEF Accept, CanAccept, Lock, CanLock, Reveal,
           CanReveal, Refund, CanRefund, Cancel, CanCancel, InDeal, Considered
  <2>5. CASE UNCHANGED seen
        BY <2>4, <2>5
  <2>6. CASE Considered(r) /\ seen' = seen \cup {Fingerprint(r.frame)}
    <3>1. Fingerprint(r.frame)[5] \notin {Payer, Payee}
          BY <2>3, <2>6 DEF Considered, Fingerprint
    <3> QED BY <2>4, <2>6, <3>1
  <2> QED BY <2>1, <2>5, <2>6 DEF FoldRecord, Accept, Lock, Reveal, Refund, Cancel,
             Heartbeat, Reject, Skip, Raise, MoveTo, Remember
<1>2. [Next]_vars =>
         [status # "proposed" /\ last'.did \notin {Payer, Payee} => Harmless]_vars
      BY <1>1
<1> QED BY <1>2, PTL DEF Spec, OutsidersAreHarmless

\* What moves the deal was never considered before.
THEOREM ReplaysStayNoOps == Spec => ReplaysAreNoOps
<1>1. ASSUME [Next]_vars, deal' # deal
      PROVE  seen' # seen
  <2>1. PICK r \in Records : FoldRecord(r)
        BY <1>1 DEF Next, vars, deal
  <2>2. PICK v : Considered(r) /\ r.frame.type # "heartbeat" /\ Remember(r, v)
    <3>1. Accept(r) \/ Lock(r) \/ Reveal(r) \/ Refund(r) \/ Cancel(r)
          BY <1>1, <2>1, StepCases
    <3>2. Considered(r) /\ Remember(r, "applied")
          BY <3>1 DEF Accept, Lock, Reveal, Refund, Cancel, MoveTo
    <3>3. r.frame.type # "heartbeat"
          BY <3>1 DEF Accept, CanAccept, Lock, CanLock, Reveal, CanReveal, Refund, CanRefund,
             Cancel, CanCancel
    <3> QED BY <3>2, <3>3
  <2> QED BY <2>2 DEF Considered, Duplicate, Remember
<1>2. [Next]_vars => [deal' # deal => seen' # seen]_vars
      BY <1>1
<1> QED BY <1>2, PTL DEF Spec, ReplaysAreNoOps

-----------------------------------------------------------------------------
(* The fold implements the contract of TclkContract. *)

LEMMA InitRefines == Init => Contract!Init
BY DEF Init, Contract!Init, Accepter

\* The deadlines of a record are those of TclkContract.
LEMMA DeadlinesAgree ==
    ASSUME NEW r, NEW d \in Nat, r.stamp \in Nat, moved'.stamp = r.stamp
    PROVE  /\ When(r) < d => ~Contract!Passed(d)
           /\ When(r) >= d => Contract!Passed(d)
<1>1. ASSUME When(r) < d PROVE ~Contract!Passed(d)
  <2>1. \A n \in Nat : ~(d <= n * Second /\ n * Second <= r.stamp)
        BY <1>1, EarlySecond DEF When
  <2>2. 0 .. r.stamp \subseteq Nat
        OBVIOUS
  <2> QED BY <2>1, <2>2 DEF Contract!Passed
<1>2. ASSUME When(r) >= d PROVE Contract!Passed(d)
      BY <1>2, DueSecond DEF When, Contract!Passed
<1> QED BY <1>1, <1>2

LEMMA StepRefines ==
    ASSUME IInv, NEW r \in Records, FoldRecord(r)
    PROVE  [Contract!Next]_(Contract!vars)
<1> USE DEF Accepter
<1>1. CASE Quiet(r) /\ UNCHANGED deal
      BY <1>1 DEF deal, Contract!vars
<1>2. offer.expiresMs \in Nat /\ offer.refundAfterMs \in Nat
      BY OfferAssumption DEF IInv, TypeOK, OfferType
<1>3. ASSUME Accept(r) \/ Lock(r) \/ Reveal(r) \/ Refund(r) \/ Cancel(r)
      PROVE  /\ r.frame # None /\ r.frame.from \in Dids /\ r.did = r.frame.from
             /\ r.stamp \in Nat /\ When(r) \in Nat
             /\ moved'.did = r.did /\ moved'.stamp = r.stamp
  <2>1. Considered(r) /\ \E s : MoveTo(r, s)
        BY <1>3 DEF Accept, Lock, Reveal, Refund, Cancel
  <2> QED BY <2>1, UsableRecord DEF Considered, MoveTo
<1>4. CASE Accept(r)
  <2>1. r.frame.statement \in Statements
        BY <1>4 DEF Accept, CanAccept, StatementFits, Statements
  <2>2. /\ accept' = r.frame /\ offer' = offer
        /\ status = "proposed" /\ status' = "accepted"
        /\ When(r) < offer.expiresMs
        /\ r.frame.from # offer.from
        BY <1>4 DEF Accept, CanAccept, MoveTo
  <2>3. ~Contract!Passed(offer.expiresMs)
        BY <1>2, <1>3, <1>4, <2>2, DeadlinesAgree
  <2>4. Contract!Accept
        BY <1>3, <1>4, <2>1, <2>2, <2>3 DEF Contract!Accept
  <2> QED BY <2>4 DEF Contract!Next
<1>5. CASE Lock(r)
  <2>1. ~Contract!Passed(offer.refundAfterMs)
        BY <1>2, <1>3, <1>5, DeadlinesAgree DEF Lock, CanLock
  <2>2. Contract!Lock
        BY <1>3, <1>5, <2>1 DEF Lock, CanLock, MoveTo, Contract!Lock, Contract!Move,
                          Contract!Payer, Payer
  <2> QED BY <2>2 DEF Contract!Next
<1>6. CASE Reveal(r)
  <2>1. ~Contract!Passed(offer.refundAfterMs)
        BY <1>2, <1>3, <1>6, DeadlinesAgree DEF Reveal, CanReveal
  <2>2. accept # None
        BY <1>6 DEF Reveal, CanReveal, IInv, Evidence
  <2>3. Contract!Claim
        BY <1>3, <1>6, <2>1, <2>2 DEF Reveal, CanReveal, MoveTo, Contract!Claim,
                          Contract!Move, Contract!Payee, Payee, Opens
  <2> QED BY <2>3 DEF Contract!Next
<1>7. CASE Refund(r)
  <2>1. Contract!Passed(offer.refundAfterMs)
        BY <1>2, <1>3, <1>7, DeadlinesAgree DEF Refund, CanRefund
  <2>2. Contract!Refund
        BY <1>3, <1>7, <2>1 DEF Refund, CanRefund, MoveTo, Contract!Refund, Contract!Move,
                          Contract!Payer, Payer
  <2> QED BY <2>2 DEF Contract!Next
<1>8. CASE Cancel(r)
  <2>1. status = "accepted"
        BY <1>8 DEF Cancel, CanCancel, InDeal, IInv, Evidence
  <2>2. r.did \in {Payer, Payee} \ {None}
        BY <1>3, <1>8, NoneAssumption DEF Cancel, CanCancel, InDeal
  <2>3. Contract!Cancel
        BY <1>3, <1>8, <2>1, <2>2 DEF Cancel, MoveTo, Contract!Cancel,
           Contract!Move, Contract!Payer, Contract!Payee, Payer, Payee
  <2> QED BY <2>3 DEF Contract!Next
<1> QED BY <1>1, <1>4, <1>5, <1>6, <1>7, <1>8, StepCases

\* Every transcript, whatever is in it, folds to a history the state diagram
\* above class Fold allows, with the second of grace that TclkContract gives its
\* deadlines.
THEOREM Refinement == Spec => ContractSpec
<1>1. IInv /\ [Next]_vars => [Contract!Next]_(Contract!vars)
  <2>1. CASE UNCHANGED vars
        BY <2>1 DEF vars, Contract!vars, Accepter
  <2>2. ASSUME IInv, Next PROVE [Contract!Next]_(Contract!vars)
        BY <2>2, StepRefines DEF Next
  <2> QED BY <2>1, <2>2
<1> QED BY <1>1, InitRefines, Invariance, PTL DEF Spec, ContractSpec, Contract!Spec

-----------------------------------------------------------------------------
(* One record folded, whoever folds it. *)

\* What matters of a Fold object.
AliceFold == [status |-> aStatus, contract |-> aContract, accept |-> aAccept,
              lock |-> aLock, secret |-> aSecret, seen |-> aSeen]
BobFold == [status |-> bStatus, contract |-> bContract, accept |-> bAccept,
            lock |-> bLock, secret |-> bSecret, seen |-> bSeen]

\* Fold t is fold s but for the frames it remembers.
Keeps(s, t) ==
    /\ t.status = s.status /\ t.contract = s.contract /\ t.accept = s.accept
    /\ t.lock = s.lock /\ t.secret = s.secret

\* Fold s does not remember frame f.
Fresh(s, f) == A!Fingerprint(f) \notin s.seen

\* The transitions of a fold, each with all its guards, for a frame of the
\* parties that is stamped with the whole second "when".
Live(s, f) ==
    /\ s.status \notin A!Terminal /\ s.contract # None /\ f.contract = s.contract

Accepting(s, f, when) ==
    /\ f.type = "accept" /\ s.status = "proposed" /\ when < Offer.expiresMs

Locking(s, f, when) ==
    /\ f.type = "lock" /\ Live(s, f) /\ s.status = "accepted"
    /\ when < Offer.refundAfterMs

Revealing(s, f, when) ==
    /\ f.type = "reveal" /\ Live(s, f) /\ s.status = "locked"
    /\ f.from = s.accept.from /\ when < Offer.refundAfterMs

Refunding(s, f, when) ==
    /\ f.type = "refund" /\ Live(s, f) /\ s.status = "locked"
    /\ when >= Offer.refundAfterMs

Cancelling(s, f) ==
    /\ f.type = "cancel" /\ Live(s, f) /\ f.from \in {Alice, s.accept.from}
    /\ s.status \in {"proposed", "accepted"}

\* Fold t is what becomes of fold s by record r: a transition that applies to a
\* frame it does not remember, or nothing.
Folds(s, r, t) ==
    LET f == r.frame
        when == A!WholeSecond(r.stamp)
    IN  /\ t.seen = s.seen \cup {A!Fingerprint(f)}
        /\ \/ /\ Fresh(s, f) /\ Accepting(s, f, when)
              /\ t.status = "accepted" /\ t.accept = f /\ t.contract = f.contract
              /\ t.lock = s.lock /\ t.secret = s.secret
           \/ /\ Fresh(s, f) /\ Locking(s, f, when)
              /\ t.status = "locked" /\ t.accept = s.accept /\ t.contract = s.contract
              /\ t.lock = f /\ t.secret = s.secret
           \/ /\ Fresh(s, f) /\ Revealing(s, f, when)
              /\ t.status = "claimed" /\ t.accept = s.accept /\ t.contract = s.contract
              /\ t.lock = s.lock /\ t.secret = Secret
           \/ /\ Fresh(s, f) /\ Refunding(s, f, when)
              /\ t.status = "refunded" /\ t.accept = s.accept /\ t.contract = s.contract
              /\ t.lock = s.lock /\ t.secret = s.secret
           \/ /\ Fresh(s, f) /\ Cancelling(s, f)
              /\ t.status = "cancelled" /\ t.accept = s.accept /\ t.contract = s.contract
              /\ t.lock = s.lock /\ t.secret = s.secret
           \/ /\ \/ ~Fresh(s, f)
                 \/ ~(\/ Accepting(s, f, when) \/ Locking(s, f, when) \/ Revealing(s, f, when)
                      \/ Refunding(s, f, when) \/ Cancelling(s, f))
              /\ Keeps(s, t)

\* The fields of the frames that the parties build.
LEMMA AcceptFields ==
    ASSUME NEW f \in Accepts
    PROVE  /\ f.type = "accept" /\ f.ref = Offer.id /\ f.nonce = Nonce
           /\ f.contract = A!ContractId(Offer, f) /\ f.contract \in Contracts
           /\ f.secret = None /\ f.rail = None
           /\ \/ f = BobsAccept /\ f.from = Bob /\ f.statement = Statement
              \/ f = CarolsAccept /\ f.from = Carol /\ f.statement = OtherStatement
BY DEF Accepts, BobsAccept, CarolsAccept, BuildAccept, A!ContractId, Contracts

\* Every frame that is not an acceptance is what its type, its contract and,
\* for a cancel, its sender say.
LEMMA FrameFields ==
    ASSUME NEW f \in Frames
    PROVE  /\ f.contract \in Contracts
           /\ f.type \in {"accept", "lock", "reveal", "refund", "cancel"}
           /\ f.type = "accept" => f \in Accepts
           /\ f.type = "lock" => f = BuildLock(Alice, f.contract)
           /\ f.type = "reveal" => f = BuildReveal(Bob, f.contract)
           /\ f.type = "refund" => f = BuildRefund(Alice, f.contract)
           /\ f.type = "cancel" =>
                    f \in {BuildCancel(Alice, f.contract), BuildCancel(Bob, f.contract)}
BY AcceptFields DEF Frames, BuildLock, BuildReveal, BuildRefund, BuildCancel, Bare

\* The validator takes what the builders make.
LEMMA FramesAreValid ==
    ASSUME NEW f \in Frames
    PROVE  A!ValidFrame(f)
BY FrameFields, AcceptFields, DealNoneAssumption
   DEF A!ValidFrame, A!Required, A!Optional, A!Fields, A!Statements,
       BuildLock, BuildReveal, BuildRefund, BuildCancel, Bare

\* Two frames with one fingerprint are one frame, if they are of one contract.
LEMMA FingerprintsTell ==
    ASSUME NEW f \in Frames, NEW g \in Frames, f.contract = g.contract \/ f.type = "accept",
           A!Fingerprint(f) = A!Fingerprint(g)
    PROVE  f = g
<1>1. f.type = g.type /\ f.from = g.from
      BY DEF A!Fingerprint
<1>2. CASE f.type = "accept"
  <2>1. f \in Accepts /\ g \in Accepts
        BY <1>1, <1>2, FrameFields
  <2> QED BY <1>1, <2>1, AcceptFields, PartiesAssumption
<1>3. CASE f.type # "accept"
      BY <1>1, <1>3, FrameFields, PartiesAssumption DEF BuildCancel, Bare
<1> QED BY <1>2, <1>3

\* A line of an export, and what both agents' folds are whenever they read one.
Readable(r) ==
    /\ r.frame \in Frames /\ r.did = r.frame.from /\ r.signed = TRUE /\ r.room = None
    /\ r.stamp \in Nat

Held(s) ==
    /\ s.accept \in Accepts \cup {None}
    /\ s.contract # None => s.accept # None
    /\ s.lock # None => s.lock.ref = LockRef

\* Alice's fold of a line is Folds: on the parties' frames the reader's many
\* rejections come down to the guards above.
LEMMA AliceFolds ==
    ASSUME NEW r, Readable(r), Held(AliceFold), ~A!Raised, A!FoldRecord(r)
    PROVE  Folds(AliceFold, r, AliceFold') /\ ~A!Raised'
<1> DEFINE f == r.frame
           when == A!WholeSecond(r.stamp)
           s == AliceFold
<1>0. f \in Frames /\ r.stamp \in Nat
      BY DEF Readable
<1>1. /\ A!Usable(r) /\ A!Hashable(f) /\ f.type \notin {"offer", "heartbeat"}
      /\ r.room = None
      BY FramesAreValid, FrameFields, DealNoneAssumption DEF Readable, A!Usable, A!Hashable
<1>2. A!Considered(r) <=> Fresh(s, f)
      BY <1>1 DEF A!Considered, A!Duplicate, Fresh, AliceFold
<1>3. ~A!Skip(r) => Fresh(s, f)
      BY <1>1, <1>2 DEF A!FoldRecord, A!Accept, A!Lock, A!Reveal, A!Refund, A!Cancel,
         A!Heartbeat, A!Reject, A!Raise
<1>4. A!CanAccept(r) <=> Accepting(s, f, when)
      BY <1>0, <1>1, FrameFields, AcceptFields, DealOfferAssumption, PartiesAssumption
      DEF A!CanAccept, Accepting, AliceFold, A!When, A!StatementFits
<1>5. /\ A!InDeal(r) => aAccept # None /\ aAccept \in Accepts
      /\ aAccept # None => A!Payee = aAccept.from
      /\ A!Payer = Alice
      BY DealOfferAssumption DEF A!InDeal, A!Payee, A!Payer, A!Accepter, Held, AliceFold
<1>6. A!InDeal(r) <=> Live(s, f) /\ f.from \in {Alice, s.accept.from}
      BY <1>1, <1>5 DEF A!InDeal, Live, AliceFold, Held
<1>7. A!CanLock(r) <=> Locking(s, f, when)
      BY <1>0, <1>5, <1>6, FrameFields, DealOfferAssumption
      DEF A!CanLock, Locking, AliceFold, A!When, BuildLock
<1>8. f.type \in {"reveal", "refund"} => A!RefMatches(f)
      BY <1>0, FrameFields DEF A!RefMatches, BuildReveal, BuildRefund, Bare
<1>9. A!CanReveal(r) <=> Revealing(s, f, when)
      BY <1>0, <1>5, <1>6, <1>8, FrameFields, AcceptFields, PartiesAssumption
      DEF A!CanReveal, Revealing, AliceFold, A!When, A!Opens, BuildReveal, Live
<1>10. A!CanRefund(r) <=> Refunding(s, f, when)
      BY <1>0, <1>5, <1>6, <1>8, FrameFields
      DEF A!CanRefund, Refunding, AliceFold, A!When, BuildRefund, Bare
<1>11. A!CanCancel(r) <=> Cancelling(s, f)
      BY <1>6 DEF A!CanCancel, Cancelling, AliceFold
<1>12. ~A!Heartbeat(r) /\ ~A!Raise(r)
      BY <1>1 DEF A!Heartbeat, A!CanHeartbeat, A!Raise
<1>13. CASE A!Skip(r)
  <2>1. ~Fresh(s, f) /\ UNCHANGED <<aStatus, aContract, aAccept, aLock, aSecret, aSeen>>
        BY <1>1, <1>13 DEF A!Skip, A!Duplicate, A!deal, Fresh, AliceFold
  <2>2. ~A!Raised'
        BY <1>13 DEF A!Skip, A!Raised
  <2> QED BY <2>1, <2>2 DEF Folds, Keeps, Fresh, AliceFold
<1>14. CASE ~A!Skip(r)
  <2>1. aSeen' = aSeen \cup {A!Fingerprint(f)} /\ ~A!Raised' /\ Fresh(s, f)
        BY <1>2, <1>3, <1>12, <1>14
        DEF A!FoldRecord, A!Accept, A!Lock, A!Reveal, A!Refund, A!Cancel, A!Reject, A!MoveTo,
            A!Remember, A!Raised
  <2>2. CASE A!Accept(r)
        BY <1>4, <2>1, <2>2 DEF A!Accept, A!MoveTo, Folds, AliceFold
  <2>3. CASE A!Lock(r)
        BY <1>7, <2>1, <2>3 DEF A!Lock, A!MoveTo, Folds, AliceFold
  <2>4. CASE A!Reveal(r)
    <3>1. f.secret = Secret
          BY <1>0, <1>9, <2>4, FrameFields DEF A!Reveal, Revealing, BuildReveal
    <3> QED BY <1>9, <2>1, <2>4, <3>1 DEF A!Reveal, A!MoveTo, Folds, AliceFold
  <2>5. CASE A!Refund(r)
        BY <1>10, <2>1, <2>5 DEF A!Refund, A!MoveTo, Folds, AliceFold
  <2>6. CASE A!Cancel(r)
        BY <1>11, <2>1, <2>6 DEF A!Cancel, A!MoveTo, Folds, AliceFold
  <2>7. CASE A!Reject(r)
        BY <1>4, <1>7, <1>9, <1>10, <1>11, <2>1, <2>7
           DEF A!Reject, A!deal, Folds, Keeps, AliceFold
  <2> QED BY <1>12, <1>14, <2>2, <2>3, <2>4, <2>5, <2>6, <2>7 DEF A!FoldRecord
<1> QED BY <1>13, <1>14

\* Both agents run one code.
LEMMA OneCode ==
    /\ B!Terminal = A!Terminal
    /\ \A f : /\ B!ValidFrame(f) <=> A!ValidFrame(f)
              /\ B!Fingerprint(f) = A!Fingerprint(f)
              /\ \A o : B!ContractId(o, f) = A!ContractId(o, f)
    /\ \A stamp : B!WholeSecond(stamp) = A!WholeSecond(stamp)
    /\ \A c : B!DealRoom(c) = A!DealRoom(c)
<1>1. \A f : B!ValidFrame(f) <=> A!ValidFrame(f)
      BY DEF A!ValidFrame, A!Required, A!Optional, A!Fields, A!Statements,
             B!ValidFrame, B!Required, B!Optional, B!Fields, B!Statements
<1>2. \A stamp : B!WholeSecond(stamp) = A!WholeSecond(stamp)
      BY DEF A!WholeSecond, B!WholeSecond
<1> QED BY <1>1, <1>2
    DEF A!Terminal, B!Terminal, A!Fingerprint, B!Fingerprint, A!ContractId, B!ContractId,
               A!DealRoom, B!DealRoom

\* Bob's fold of a line is Folds too.
LEMMA BobFolds ==
    ASSUME NEW r, Readable(r), Held(BobFold), ~B!Raised, B!FoldRecord(r)
    PROVE  Folds(BobFold, r, BobFold') /\ ~B!Raised'
<1> DEFINE f == r.frame
           when == A!WholeSecond(r.stamp)
           s == BobFold
<1>0. f \in Frames /\ r.stamp \in Nat
      BY DEF Readable
<1>1. /\ B!Usable(r) /\ B!Hashable(f) /\ f.type \notin {"offer", "heartbeat"}
      /\ r.room = None
      BY FramesAreValid, FrameFields, DealNoneAssumption, OneCode
         DEF Readable, B!Usable, B!Hashable
<1>2. B!Considered(r) <=> Fresh(s, f)
      BY <1>1, OneCode DEF B!Considered, B!Duplicate, Fresh, BobFold
<1>3. ~B!Skip(r) => Fresh(s, f)
      BY <1>1, <1>2 DEF B!FoldRecord, B!Accept, B!Lock, B!Reveal, B!Refund, B!Cancel,
         B!Heartbeat, B!Reject, B!Raise
<1>4. B!CanAccept(r) <=> Accepting(s, f, when)
      BY <1>0, <1>1, FrameFields, AcceptFields, DealOfferAssumption, PartiesAssumption, OneCode
      DEF B!CanAccept, Accepting, BobFold, B!When, B!StatementFits
<1>5. /\ B!InDeal(r) => bAccept # None /\ bAccept \in Accepts
      /\ bAccept # None => B!Payee = bAccept.from
      /\ B!Payer = Alice
      BY DealOfferAssumption DEF B!InDeal, B!Payee, B!Payer, B!Accepter, Held, BobFold
<1>6. B!InDeal(r) <=> Live(s, f) /\ f.from \in {Alice, s.accept.from}
      BY <1>1, <1>5, OneCode DEF B!InDeal, Live, BobFold, Held
<1>7. B!CanLock(r) <=> Locking(s, f, when)
      BY <1>0, <1>5, <1>6, FrameFields, DealOfferAssumption, OneCode
      DEF B!CanLock, Locking, BobFold, B!When, BuildLock
<1>8. f.type \in {"reveal", "refund"} => B!RefMatches(f)
      BY <1>0, FrameFields DEF B!RefMatches, BuildReveal, BuildRefund, Bare
<1>9. B!CanReveal(r) <=> Revealing(s, f, when)
      BY <1>0, <1>5, <1>6, <1>8, FrameFields, AcceptFields, PartiesAssumption, OneCode
      DEF B!CanReveal, Revealing, BobFold, B!When, B!Opens, BuildReveal, Live
<1>10. B!CanRefund(r) <=> Refunding(s, f, when)
      BY <1>0, <1>5, <1>6, <1>8, FrameFields, OneCode
      DEF B!CanRefund, Refunding, BobFold, B!When, BuildRefund, Bare
<1>11. B!CanCancel(r) <=> Cancelling(s, f)
      BY <1>6 DEF B!CanCancel, Cancelling, BobFold
<1>12. ~B!Heartbeat(r) /\ ~B!Raise(r)
      BY <1>1 DEF B!Heartbeat, B!CanHeartbeat, B!Raise
<1>13. CASE B!Skip(r)
  <2>1. ~Fresh(s, f) /\ UNCHANGED <<bStatus, bContract, bAccept, bLock, bSecret, bSeen>>
        BY <1>1, <1>13, OneCode DEF B!Skip, B!Duplicate, B!deal, Fresh, BobFold
  <2>2. ~B!Raised'
        BY <1>13 DEF B!Skip, B!Raised
  <2> QED BY <2>1, <2>2 DEF Folds, Keeps, Fresh, BobFold
<1>14. CASE ~B!Skip(r)
  <2>1. bSeen' = bSeen \cup {A!Fingerprint(f)} /\ ~B!Raised' /\ Fresh(s, f)
        BY <1>2, <1>3, <1>12, <1>14, OneCode
        DEF B!FoldRecord, B!Accept, B!Lock, B!Reveal, B!Refund, B!Cancel, B!Reject, B!MoveTo,
            B!Remember, B!Raised
  <2>2. CASE B!Accept(r)
        BY <1>4, <2>1, <2>2 DEF B!Accept, B!MoveTo, Folds, BobFold
  <2>3. CASE B!Lock(r)
        BY <1>7, <2>1, <2>3 DEF B!Lock, B!MoveTo, Folds, BobFold
  <2>4. CASE B!Reveal(r)
    <3>1. f.secret = Secret
          BY <1>0, <1>9, <2>4, FrameFields DEF B!Reveal, Revealing, BuildReveal
    <3> QED BY <1>9, <2>1, <2>4, <3>1 DEF B!Reveal, B!MoveTo, Folds, BobFold
  <2>5. CASE B!Refund(r)
        BY <1>10, <2>1, <2>5 DEF B!Refund, B!MoveTo, Folds, BobFold
  <2>6. CASE B!Cancel(r)
        BY <1>11, <2>1, <2>6 DEF B!Cancel, B!MoveTo, Folds, BobFold
  <2>7. CASE B!Reject(r)
        BY <1>4, <1>7, <1>9, <1>10, <1>11, <2>1, <2>7
           DEF B!Reject, B!deal, Folds, Keeps, BobFold
  <2> QED BY <1>12, <1>14, <2>2, <2>3, <2>4, <2>5, <2>6, <2>7 DEF B!FoldRecord
<1> QED BY <1>13, <1>14

-----------------------------------------------------------------------------
(* What a fold makes of a room, told without a fold. *)

\* Stamps are cut to their second: not above the stamp, and in its order.
LEMMA WholeSeconds ==
    ASSUME NEW x \in Nat, NEW y \in Nat, x <= y
    PROVE  /\ A!WholeSecond(x) \in Nat /\ A!WholeSecond(x) <= x
           /\ A!WholeSecond(x) <= A!WholeSecond(y)
<1>1. PICK p \in Nat, a \in Nat : x = Second * p + a /\ a < Second /\ A!WholeSecond(x) = Second * p
  <2>1. /\ x \div Second \in Nat /\ x % Second \in 0 .. (Second - 1)
        /\ x = Second * (x \div Second) + (x % Second)
        BY SecondAssumption
  <2>2. Second * (x \div Second) \in Nat
        BY <2>1, SecondAssumption
  <2>3. A!WholeSecond(x) = Second * (x \div Second) /\ x % Second < Second /\ x % Second \in Nat
        BY <2>1, <2>2, SecondAssumption DEF A!WholeSecond
  <2> QED BY <2>1, <2>3
<1>2. PICK q \in Nat, b \in Nat : y = Second * q + b /\ b < Second /\ A!WholeSecond(y) = Second * q
  <2>1. /\ y \div Second \in Nat /\ y % Second \in 0 .. (Second - 1)
        /\ y = Second * (y \div Second) + (y % Second)
        BY SecondAssumption
  <2>2. Second * (y \div Second) \in Nat
        BY <2>1, SecondAssumption
  <2>3. A!WholeSecond(y) = Second * (y \div Second) /\ y % Second < Second /\ y % Second \in Nat
        BY <2>1, <2>2, SecondAssumption DEF A!WholeSecond
  <2> QED BY <2>1, <2>3
<1>3. Second * p \in Nat /\ Second * q \in Nat /\ Second \in Nat
      BY SecondAssumption
<1>4. p <= q
  <2>1. SUFFICES ASSUME q + 1 <= p PROVE FALSE
        OBVIOUS
  <2>2. p - (q + 1) \in Nat /\ p = q + 1 + (p - (q + 1))
        BY <2>1
  <2>3. PICK d \in Nat : p = q + 1 + d
        BY <2>2
  <2>4. Second * p = Second * q + Second + Second * d /\ Second * d \in Nat
        BY <2>3, SecondAssumption
  <2> QED BY <1>1, <1>2, <1>3, <2>4
<1>5. q - p \in Nat /\ q = p + (q - p)
      BY <1>4
<1>6. PICK e \in Nat : q = p + e
      BY <1>5
<1>7. Second * q = Second * p + Second * e /\ Second * e \in Nat
      BY <1>6, SecondAssumption
<1> QED BY <1>1, <1>2, <1>3, <1>7

\* A line of a room, and the time a fold takes it for.
Line == [frame : Frames, stamp : Nat]

At(L, i) == A!WholeSecond(L[i].stamp)

InOrder(L) == \A i, j \in 1 .. Len(L) : i <= j => L[i].stamp <= L[j].stamp

\* The room of a contract, and the offers room.
IsRoom(c, L) ==
    /\ L \in Seq(Line) /\ InOrder(L)
    /\ \A i \in 1 .. Len(L) : L[i].frame.contract = c /\ L[i].frame.type # "accept"

IsOffersRoom(T) ==
    /\ T \in Seq(Line) /\ InOrder(T)
    /\ \A i \in 1 .. Len(T) : T[i].frame \in Accepts

\* The frames a reader remembers after n lines.
Heard(L, n) == {A!Fingerprint(L[i].frame) : i \in 1 .. n}

\* Line i was not there before.
New(L, i) == \A j \in 1 .. i - 1 : L[j].frame # L[i].frame

Early(T) == At(T, 1) < Offer.expiresMs

\* Line i ends the acceptance: a lock in time, or a cancel by a party.
Ends(c, L, i) ==
    \/ L[i].frame.type = "lock" /\ At(L, i) < Offer.refundAfterMs
    \/ L[i].frame.type = "cancel" /\ L[i].frame.from \in {Alice, c[2]}

FirstEnd(c, L, k) == Ends(c, L, k) /\ \A i \in 1 .. k - 1 : ~Ends(c, L, i)

\* Line j settles a lock: a reveal in time, or a refund that is due.
Pays(c, L, j) ==
    /\ New(L, j)
    /\ \/ /\ L[j].frame.type = "reveal" /\ L[j].frame.from = c[2]
          /\ At(L, j) < Offer.refundAfterMs
       \/ L[j].frame.type = "refund" /\ At(L, j) >= Offer.refundAfterMs

FirstPay(c, L, k, j) ==
    /\ j > k /\ Pays(c, L, j)
    /\ \A i \in k + 1 .. j - 1 : ~Pays(c, L, i)

\* The state of a deal after n lines of its room.
Plot(s, c, L, n) ==
    /\ s.status \in {"accepted", "locked"} \cup A!Terminal
    /\ s.secret = IF s.status = "claimed" THEN Secret ELSE None
    /\ s.lock # None => s.lock.ref = LockRef
    /\ s.status = "accepted" => \A i \in 1 .. n : ~Ends(c, L, i)
    /\ s.status = "cancelled" =>
           \E k \in 1 .. n : FirstEnd(c, L, k) /\ L[k].frame.type = "cancel"
    /\ s.status = "locked" =>
           \E k \in 1 .. n : /\ FirstEnd(c, L, k) /\ L[k].frame.type = "lock"
                             /\ \A j \in k + 1 .. n : ~Pays(c, L, j)
    /\ s.status \in {"claimed", "refunded"} =>
           \E k, j \in 1 .. n :
               /\ FirstEnd(c, L, k) /\ L[k].frame.type = "lock" /\ FirstPay(c, L, k, j)
               /\ L[j].frame.type = IF s.status = "claimed" THEN "reveal" ELSE "refund"

\* A fold before the acceptance, and after it.
Prologue(s, T, m, n) ==
    /\ s.contract = None /\ s.accept = None /\ s.lock = None /\ s.secret = None
    /\ s.status = "proposed" /\ n = 0
    /\ s.seen = Heard(T, m)
    /\ m > 0 => ~Early(T)

Chapter(s, T, L, m, n) ==
    /\ m = 1 /\ Early(T)
    /\ s.accept = T[1].frame /\ s.contract = T[1].frame.contract
    /\ s.seen = {A!Fingerprint(s.accept)} \cup Heard(L, n)
    /\ Plot(s, s.contract, L, n)

LEMMA HeardMore ==
    ASSUME NEW L \in Seq(Line), NEW n \in Nat
    PROVE  Heard(L, n + 1) = Heard(L, n) \cup {A!Fingerprint(L[n + 1].frame)}
BY DEF Heard

\* A step of a reader of the offers room.
LEMMA PrologueGoesOn ==
    ASSUME NEW T, IsOffersRoom(T), NEW m \in Nat, m < Len(T), NEW s, NEW t, NEW L,
           Prologue(s, T, m, 0), Folds(s, T[m + 1], t)
    PROVE  Prologue(t, T, m + 1, 0) \/ Chapter(t, T, L, m + 1, 0)
<1> DEFINE r == T[m + 1]
<1>1. /\ m + 1 \in 1 .. Len(T) /\ 1 \in 1 .. Len(T)
      /\ r \in Line /\ T[1] \in Line /\ r.frame \in Accepts
      BY DEF IsOffersRoom
<1>2. r.frame.type = "accept"
      BY <1>1, AcceptFields
<1>3. T[1].stamp \in Nat /\ r.stamp \in Nat /\ T[1].stamp <= r.stamp
      BY <1>1 DEF Line, IsOffersRoom, InOrder
<1>4. At(T, 1) \in Nat /\ At(T, m + 1) \in Nat /\ At(T, 1) <= At(T, m + 1)
  <2>1. r.stamp <= r.stamp
        BY <1>3
  <2> QED BY <1>3, <2>1, WholeSeconds DEF At
<1>5. m = 0 => Fresh(s, r.frame)
      BY DEF Fresh, Prologue, Heard
<1>6. t.seen = Heard(T, m + 1)
      BY HeardMore DEF Folds, Prologue, IsOffersRoom
<1>7. CASE m > 0 \/ ~Early(T)
  <2>1. ~Early(T) /\ At(T, m + 1) >= Offer.expiresMs
        BY <1>4, <1>7, DealOfferAssumption DEF Prologue, Early
  <2>2. Keeps(s, t)
        BY <1>2, <2>1, <1>4, DealOfferAssumption
           DEF Folds, At, Accepting, Locking, Revealing, Refunding, Cancelling
  <2> QED BY <1>6, <2>1, <2>2 DEF Keeps, Prologue
<1>8. CASE m = 0 /\ Early(T)
  <2>1. /\ t.status = "accepted" /\ t.accept = r.frame /\ t.contract = r.frame.contract
        /\ t.lock = None /\ t.secret = None
        BY <1>2, <1>5, <1>8
           DEF Folds, At, Early, Accepting, Locking, Revealing, Refunding, Cancelling, Prologue
  <2>2. t.seen = {A!Fingerprint(t.accept)} \cup Heard(L, 0)
        BY <1>6, <1>8, <2>1 DEF Heard
  <2>3. Plot(t, t.contract, L, 0)
        BY <2>1 DEF Plot, A!Terminal
  <2> QED BY <1>8, <2>1, <2>2, <2>3 DEF Chapter
<1> QED BY <1>7, <1>8

\* What is known of the lines of a room.
LEMMA Lines ==
    ASSUME NEW c, NEW L, IsRoom(c, L), NEW i \in 1 .. Len(L)
    PROVE  /\ L[i] \in Line /\ L[i].frame \in Frames /\ L[i].stamp \in Nat
           /\ L[i].frame.contract = c
           /\ L[i].frame.type \in {"lock", "reveal", "refund", "cancel"}
           /\ At(L, i) \in Nat
           /\ \A j \in 1 .. i : At(L, j) \in Nat /\ At(L, j) <= At(L, i)
<1>1. \A j \in 1 .. Len(L) : L[j] \in Line /\ L[j].frame \in Frames /\ L[j].stamp \in Nat
  <2>1. \A j \in 1 .. Len(L) : L[j] \in Line
        BY DEF IsRoom
  <2> QED BY <2>1 DEF Line
<1>2. L[i].frame.contract = c /\ L[i].frame.type \in {"lock", "reveal", "refund", "cancel"}
      BY <1>1, FrameFields DEF IsRoom
<1>3. ASSUME NEW j \in 1 .. i PROVE At(L, j) \in Nat /\ At(L, j) <= At(L, i)
  <2>1. j \in 1 .. Len(L) /\ L[j].stamp <= L[i].stamp
        BY DEF IsRoom, InOrder
  <2> QED BY <1>1, <2>1, WholeSeconds DEF At
<1> QED BY <1>1, <1>2, <1>3

\* A reader that remembers the acceptance and n lines tells whether the next
\* one was there before.
LEMMA FreshIsNew ==
    ASSUME NEW L, NEW s, NEW n \in Nat, n < Len(L), IsRoom(s.contract, L), s.accept \in Accepts,
           s.seen = {A!Fingerprint(s.accept)} \cup Heard(L, n)
    PROVE  Fresh(s, L[n + 1].frame) <=> New(L, n + 1)
<1> DEFINE f == L[n + 1].frame
<1>0. /\ n + 1 \in 1 .. Len(L) /\ (n + 1) - 1 = n
      /\ \A i \in 1 .. n : i \in 1 .. Len(L)
      BY DEF IsRoom
<1>1. /\ f \in Frames /\ f.contract = s.contract /\ f.type # "accept"
      /\ \A i \in 1 .. n : L[i].frame \in Frames /\ L[i].frame.contract = s.contract
  <2>1. f \in Frames /\ f.contract = s.contract /\ f.type # "accept"
        BY <1>0, Lines
  <2>2. ASSUME NEW i \in 1 .. n PROVE L[i].frame \in Frames /\ L[i].frame.contract = s.contract
        BY <1>0, Lines
  <2> QED BY <2>1, <2>2
<1>2. A!Fingerprint(f) # A!Fingerprint(s.accept)
      BY <1>1, AcceptFields DEF A!Fingerprint
<1>3. \A i \in 1 .. n : A!Fingerprint(f) = A!Fingerprint(L[i].frame) <=> f = L[i].frame
      BY <1>1, FingerprintsTell
<1> HIDE DEF f
<1>4. Fresh(s, f) <=> \A i \in 1 .. n : f # L[i].frame
      BY <1>2, <1>3 DEF Fresh, Heard
<1> QED BY <1>0, <1>4 DEF New, f

\* A step of a reader from a state that the room accounts for.
LEMMA PlotGoesOn ==
    ASSUME NEW L, NEW s, NEW t, NEW n \in Nat, n < Len(L), s.contract # None,
           IsRoom(s.contract, L), s.accept.from = s.contract[2],
           Fresh(s, L[n + 1].frame) <=> New(L, n + 1),
           Plot(s, s.contract, L, n), Folds(s, L[n + 1], t)
    PROVE  /\ t.contract = s.contract /\ t.accept = s.accept
           /\ Plot(t, s.contract, L, n + 1)
<1> DEFINE c == s.contract
           i == n + 1
           f == L[i].frame
           when == At(L, i)
<1>1. /\ i \in 1 .. Len(L) /\ i - 1 = n /\ 1 .. i = (1 .. n) \cup {i}
      /\ f \in Frames /\ f.contract = c /\ f.type \in {"lock", "reveal", "refund", "cancel"}
      /\ when \in Nat /\ \A j \in 1 .. n : At(L, j) <= when
  <2>1. i \in 1 .. Len(L) /\ i - 1 = n /\ 1 .. i = (1 .. n) \cup {i}
        BY DEF IsRoom
  <2> QED BY <2>1, Lines
<1>2. Fresh(s, f) <=> \A j \in 1 .. n : L[j].frame # f
      BY <1>1 DEF New
<1>3. ~Accepting(s, f, when)
      BY <1>1 DEF Accepting
<1>4. f.type = "lock" => f.ref = LockRef
      BY <1>1, FrameFields DEF BuildLock
<1>5. CASE s.status = "accepted"
  <2>1. \A j \in 1 .. n : ~Ends(c, L, j)
        BY <1>5 DEF Plot
  <2>2. CASE Ends(c, L, i)
    <3>1. Fresh(s, f)
      <4>1. SUFFICES ASSUME NEW j \in 1 .. n, L[j].frame = f PROVE FALSE
            BY <1>2
      <4>2. At(L, j) \in Nat /\ At(L, j) <= when
            BY <1>1, Lines
      <4>3. Ends(c, L, j)
            BY <1>1, <2>2, <4>1, <4>2, DealOfferAssumption DEF Ends
      <4> QED BY <2>1, <4>3
    <3>2. FirstEnd(c, L, i)
          BY <1>1, <2>1, <2>2 DEF FirstEnd
    <3>3. CASE f.type = "lock"
      <4>1. Locking(s, f, when)
            BY <1>1, <1>5, <2>2, <3>3 DEF Locking, Live, Ends, A!Terminal
      <4>2. /\ t.status = "locked" /\ t.accept = s.accept /\ t.contract = c
            /\ t.lock = f /\ t.secret = s.secret
            BY <1>3, <3>1, <3>3, <4>1 DEF Folds, At, Revealing, Refunding, Cancelling, Locking
      <4>3. s.secret = None
            BY <1>5 DEF Plot
      <4>4. \A j \in i + 1 .. i : ~Pays(c, L, j)
            BY <1>1
      <4> QED BY <1>1, <1>4, <3>2, <3>3, <4>2, <4>3, <4>4 DEF Plot, A!Terminal
    <3>4. CASE f.type = "cancel"
      <4>1. Cancelling(s, f)
            BY <1>1, <1>5, <2>2, <3>4 DEF Cancelling, Live, Ends, A!Terminal
      <4>2. /\ t.status = "cancelled" /\ t.accept = s.accept /\ t.contract = c
            /\ t.lock = s.lock /\ t.secret = s.secret
            BY <1>3, <3>1, <3>4, <4>1 DEF Folds, At, Revealing, Refunding, Cancelling, Locking
      <4>3. s.secret = None /\ (s.lock # None => s.lock.ref = LockRef)
            BY <1>5 DEF Plot
      <4> QED BY <1>1, <3>2, <3>4, <4>2, <4>3 DEF Plot, A!Terminal
    <3> QED BY <2>2, <3>3, <3>4 DEF Ends
  <2>3. CASE ~Ends(c, L, i)
    <3>1. Keeps(s, t)
          BY <1>1, <1>3, <1>5, <2>3
             DEF Folds, At, Locking, Revealing, Refunding, Cancelling, Ends
    <3> QED BY <1>1, <1>5, <2>1, <2>3, <3>1 DEF Keeps, Plot
  <2> QED BY <2>2, <2>3
<1>6. CASE s.status = "locked"
  <2>1. PICK k \in 1 .. n : /\ FirstEnd(c, L, k) /\ L[k].frame.type = "lock"
                            /\ \A j \in k + 1 .. n : ~Pays(c, L, j)
        BY <1>6 DEF Plot
  <2>2. /\ k \in 1 .. i /\ i > k /\ k + 1 .. i = (k + 1 .. n) \cup {i} /\ k + 1 .. i - 1 = k + 1 .. n
        BY <1>1
  <2>3. s.secret = None /\ (s.lock # None => s.lock.ref = LockRef)
        BY <1>6 DEF Plot
  <2>4. CASE Pays(c, L, i)
    <3>1. FirstPay(c, L, k, i) /\ Fresh(s, f)
          BY <2>1, <2>2, <2>4 DEF FirstPay, Pays
    <3>2. CASE f.type = "reveal"
      <4>1. Revealing(s, f, when)
            BY <1>1, <1>6, <2>4, <3>2 DEF Revealing, Live, Pays, A!Terminal
      <4>2. /\ t.status = "claimed" /\ t.accept = s.accept /\ t.contract = c
            /\ t.lock = s.lock /\ t.secret = Secret
            BY <1>3, <3>1, <3>2, <4>1 DEF Folds, At, Revealing, Refunding, Cancelling, Locking
      <4> QED BY <1>1, <2>1, <2>2, <2>3, <3>1, <3>2, <4>2 DEF Plot, A!Terminal
    <3>3. CASE f.type = "refund"
      <4>1. Refunding(s, f, when)
            BY <1>1, <1>6, <2>4, <3>3 DEF Refunding, Live, Pays, A!Terminal
      <4>2. /\ t.status = "refunded" /\ t.accept = s.accept /\ t.contract = c
            /\ t.lock = s.lock /\ t.secret = s.secret
            BY <1>3, <3>1, <3>3, <4>1 DEF Folds, At, Revealing, Refunding, Cancelling, Locking
      <4> QED BY <1>1, <2>1, <2>2, <2>3, <3>1, <3>3, <4>2 DEF Plot, A!Terminal
    <3> QED BY <2>4, <3>2, <3>3 DEF Pays
  <2>5. CASE ~Pays(c, L, i)
    <3>1. Keeps(s, t)
          BY <1>1, <1>3, <1>6, <2>5
             DEF Folds, At, Locking, Revealing, Refunding, Cancelling, Pays
    <3> QED BY <1>1, <1>6, <2>1, <2>2, <2>3, <2>5, <3>1 DEF Keeps, Plot
  <2> QED BY <2>4, <2>5
<1>7. CASE s.status \in A!Terminal
  <2>1. Keeps(s, t)
        BY <1>3, <1>7 DEF Folds, At, Locking, Revealing, Refunding, Cancelling, Live
  <2>2. 1 .. n \subseteq 1 .. i
        BY <1>1
  <2> HIDE DEF i
  <2> QED BY <1>7, <2>1, <2>2 DEF Keeps, Plot, A!Terminal
<1> QED BY <1>5, <1>6, <1>7 DEF Plot

\* A step of a reader of the deal room.
LEMMA ChapterGoesOn ==
    ASSUME NEW T, IsOffersRoom(T), Len(T) >= 1, NEW L, NEW n \in Nat, n < Len(L), NEW s, NEW t,
           IsRoom(s.contract, L), Chapter(s, T, L, 1, n), Folds(s, L[n + 1], t)
    PROVE  Chapter(t, T, L, 1, n + 1)
<1>1. T[1].frame \in Accepts
      BY DEF IsOffersRoom
<1>2. s.accept \in Accepts /\ s.contract = s.accept.contract /\ s.contract # None
      BY <1>1, AcceptFields, DealNoneAssumption DEF Chapter
<1>3. s.accept.from = s.contract[2]
      BY <1>2, AcceptFields DEF A!ContractId
<1>4. Fresh(s, L[n + 1].frame) <=> New(L, n + 1)
      BY <1>2, FreshIsNew DEF Chapter
<1>5. t.contract = s.contract /\ t.accept = s.accept /\ Plot(t, s.contract, L, n + 1)
      BY <1>2, <1>3, <1>4, PlotGoesOn DEF Chapter
<1>6. t.seen = {A!Fingerprint(s.accept)} \cup Heard(L, n + 1)
      BY HeardMore DEF Folds, Chapter, IsRoom
<1> QED BY <1>5, <1>6 DEF Chapter

-----------------------------------------------------------------------------
(* What holds of the lines of a room holds when the room has grown. *)

\* M begins with the first n lines of L.
Agree(L, M, n) == \A i \in 1 .. n : M[i] = L[i]

LEMMA LinesStay ==
    ASSUME NEW c, NEW L, NEW M, NEW n \in Nat, Agree(L, M, n)
    PROVE  /\ Heard(M, n) = Heard(L, n)
           /\ \A i \in 1 .. n :
                  /\ At(M, i) = At(L, i) /\ (New(M, i) <=> New(L, i))
                  /\ (Ends(c, M, i) <=> Ends(c, L, i)) /\ (FirstEnd(c, M, i) <=> FirstEnd(c, L, i))
                  /\ (Pays(c, M, i) <=> Pays(c, L, i))
                  /\ \A j \in 1 .. n : FirstPay(c, M, i, j) <=> FirstPay(c, L, i, j)
<1>1. Heard(M, n) = Heard(L, n)
      BY DEF Heard, Agree
<1>2. \A i \in 1 .. n : At(M, i) = At(L, i) /\ (New(M, i) <=> New(L, i))
      BY DEF At, New, Agree
<1>3. \A i \in 1 .. n : (Ends(c, M, i) <=> Ends(c, L, i)) /\ (Pays(c, M, i) <=> Pays(c, L, i))
      BY <1>2 DEF Ends, Pays, Agree
<1>4. \A i \in 1 .. n : FirstEnd(c, M, i) <=> FirstEnd(c, L, i)
      BY <1>3 DEF FirstEnd
<1>5. \A i, j \in 1 .. n : FirstPay(c, M, i, j) <=> FirstPay(c, L, i, j)
      BY <1>3 DEF FirstPay
<1> QED BY <1>1, <1>2, <1>3, <1>4, <1>5

LEMMA PlotStays ==
    ASSUME NEW c, NEW L, NEW M, NEW n \in Nat, Agree(L, M, n), NEW s, Plot(s, c, L, n)
    PROVE  Plot(s, c, M, n)
<1>1. \A i \in 1 .. n : /\ M[i] = L[i] /\ (Ends(c, M, i) <=> Ends(c, L, i))
                        /\ (FirstEnd(c, M, i) <=> FirstEnd(c, L, i))
                        /\ (Pays(c, M, i) <=> Pays(c, L, i))
                        /\ \A j \in 1 .. n : FirstPay(c, M, i, j) <=> FirstPay(c, L, i, j)
      BY LinesStay DEF Agree
<1>2. s.status = "locked" =>
           \E k \in 1 .. n : /\ FirstEnd(c, M, k) /\ M[k].frame.type = "lock"
                             /\ \A j \in k + 1 .. n : ~Pays(c, M, j)
      BY <1>1 DEF Plot
<1> QED BY <1>1, <1>2 DEF Plot

\* One line more: M is L with frame f posted at a time that L does not pass.
Grown(L, f, time) == Append(L, [frame |-> f, stamp |-> time])

LEMMA RoomGrows ==
    ASSUME NEW L \in Seq(Line), InOrder(L), NEW f \in Frames, NEW time \in Nat,
           \A i \in 1 .. Len(L) : L[i].stamp <= time
    PROVE  /\ Grown(L, f, time) \in Seq(Line) /\ InOrder(Grown(L, f, time))
           /\ Len(Grown(L, f, time)) = Len(L) + 1
           /\ Agree(L, Grown(L, f, time), Len(L))
           /\ Grown(L, f, time)[Len(L) + 1] = [frame |-> f, stamp |-> time]
           /\ \A i \in 1 .. Len(L) + 1 : Grown(L, f, time)[i].stamp <= time
<1> DEFINE M == Grown(L, f, time)
           x == [frame |-> f, stamp |-> time]
<1>1. x \in Line /\ x.stamp = time
      BY DEF Line
<1> HIDE DEF x
<1>2. M \in Seq(Line) /\ Len(M) = Len(L) + 1 /\ M[Len(L) + 1] = x
      BY <1>1, AppendProperties DEF Grown, x
<1>3. Agree(L, M, Len(L))
      BY <1>1 DEF Grown, Agree, x
<1>4. \A i \in 1 .. Len(L) : L[i] \in Line
      OBVIOUS
<1>5. \A i \in 1 .. Len(L) : L[i].stamp \in Nat
      BY <1>4 DEF Line
<1> HIDE DEF M
<1>6. \A i \in 1 .. Len(L) + 1 :
          /\ M[i].stamp \in Nat /\ M[i].stamp <= time
          /\ (i = Len(L) + 1 => M[i].stamp = time)
      BY <1>1, <1>2, <1>3, <1>5 DEF Agree
<1>7. InOrder(M)
  <2>1. SUFFICES ASSUME NEW i \in 1 .. Len(L) + 1, NEW j \in 1 .. Len(L) + 1, i <= j
                 PROVE  M[i].stamp <= M[j].stamp
        BY <1>2 DEF InOrder
  <2>2. CASE j = Len(L) + 1
        BY <1>6, <2>2
  <2>3. CASE j # Len(L) + 1
        BY <1>3, <2>1, <2>3 DEF Agree, InOrder
  <2> QED BY <2>2, <2>3
<1> QED BY <1>2, <1>3, <1>6, <1>7 DEF M, x

-----------------------------------------------------------------------------
(* The log of the venue. *)

Rooms == {OffersRoom} \cup {A!DealRoom(c) : c \in Contracts}

\* The log holds in each room what belongs there, stamped in order, up to now.
Booked(lg, time) ==
    /\ lg \in [Rooms -> Seq(Line)]
    /\ IsOffersRoom(lg[OffersRoom])
    /\ \A c \in Contracts : IsRoom(c, lg[A!DealRoom(c)])
    /\ \A room \in Rooms : \A i \in 1 .. Len(lg[room]) : lg[room][i].stamp <= time

\* The log with frame f stored at a time.
Entered(lg, f, time) == [lg EXCEPT ![RoomOf(f)] = Append(@, [frame |-> f, stamp |-> time])]

\* Every room keeps its lines.
Grows(lg, mg) ==
    \A room \in Rooms : /\ Len(lg[room]) <= Len(mg[room])
                        /\ Agree(lg[room], mg[room], Len(lg[room]))

LEMMA RoomsDiffer ==
    /\ \A c \in Contracts : A!DealRoom(c) # OffersRoom
    /\ \A c, d \in Contracts : A!DealRoom(c) = A!DealRoom(d) => c = d
    /\ \A f \in Frames : RoomOf(f) \in Rooms
    /\ \A f \in Frames : f.type = "accept" <=> RoomOf(f) = OffersRoom
    /\ \A f \in Frames : f.type # "accept" => RoomOf(f) = A!DealRoom(f.contract)
<1>1. \A c \in Contracts : A!DealRoom(c) # OffersRoom
      BY RoomAssumption
<1>2. \A c, d \in Contracts : A!DealRoom(c) = A!DealRoom(d) => c = d
      BY DEF A!DealRoom
<1> QED BY <1>1, <1>2, FrameFields DEF RoomOf, Rooms

\* A frame stored now keeps the log in order, and every line where it is.
LEMMA LogGrows ==
    ASSUME NEW lg, NEW time \in Nat, Booked(lg, time), NEW f \in Frames
    PROVE  /\ Booked(Entered(lg, f, time), time) /\ Grows(lg, Entered(lg, f, time))
           /\ \A room \in Rooms :
                  Entered(lg, f, time)[room] =
                      IF room = RoomOf(f) THEN Grown(lg[room], f, time) ELSE lg[room]
<1> DEFINE mg == Entered(lg, f, time)
           own == RoomOf(f)
<1>1. /\ own \in Rooms /\ lg \in [Rooms -> Seq(Line)]
      /\ \A room \in Rooms : lg[room] \in Seq(Line) /\ InOrder(lg[room])
      BY RoomsDiffer DEF Booked, IsOffersRoom, IsRoom, Rooms
<1>2. /\ Grown(lg[own], f, time) \in Seq(Line) /\ InOrder(Grown(lg[own], f, time))
      /\ Len(Grown(lg[own], f, time)) = Len(lg[own]) + 1
      /\ Agree(lg[own], Grown(lg[own], f, time), Len(lg[own]))
      /\ Grown(lg[own], f, time)[Len(lg[own]) + 1] = [frame |-> f, stamp |-> time]
      /\ \A i \in 1 .. Len(lg[own]) + 1 : Grown(lg[own], f, time)[i].stamp <= time
      BY <1>1, RoomGrows DEF Booked
<1>3. /\ mg \in [Rooms -> Seq(Line)]
      /\ \A room \in Rooms : mg[room] = IF room = own THEN Grown(lg[room], f, time) ELSE lg[room]
      BY <1>1, <1>2 DEF Entered, Grown
<1> HIDE DEF mg
<1>4. Grows(lg, mg)
  <2>1. SUFFICES ASSUME NEW room \in Rooms
                 PROVE  Len(lg[room]) <= Len(mg[room]) /\ Agree(lg[room], mg[room], Len(lg[room]))
        BY DEF Grows
  <2>2. Len(lg[room]) \in Nat
        BY <1>1
  <2>3. CASE room = own
        BY <1>2, <1>3, <2>2, <2>3
  <2>4. CASE room # own
    <3>1. mg[room] = lg[room]
          BY <1>3, <2>4
    <3> QED BY <2>2, <3>1 DEF Agree
  <2> QED BY <2>3, <2>4
<1>5. \A i \in 1 .. Len(lg[own]) + 1 :
          \/ i \in 1 .. Len(lg[own]) /\ Grown(lg[own], f, time)[i] = lg[own][i]
          \/ i = Len(lg[own]) + 1 /\ Grown(lg[own], f, time)[i].frame = f
      BY <1>1, <1>2 DEF Agree
<1>6. IsOffersRoom(mg[OffersRoom])
  <2>1. CASE own = OffersRoom
    <3>1. f \in Accepts
          BY <2>1, RoomsDiffer, FrameFields
    <3> QED BY <1>2, <1>3, <1>5, <2>1, <3>1 DEF Booked, IsOffersRoom, Rooms
  <2>2. CASE own # OffersRoom
        BY <1>3, <2>2 DEF Booked, Rooms
  <2> QED BY <2>1, <2>2
<1>7. ASSUME NEW c \in Contracts
      PROVE  IsRoom(c, mg[A!DealRoom(c)])
  <2>1. CASE own = A!DealRoom(c)
    <3>1. f.contract = c /\ f.type # "accept"
          BY <2>1, RoomsDiffer, FrameFields
    <3> QED BY <1>1, <1>2, <1>3, <1>5, <2>1, <3>1 DEF Booked, IsRoom
  <2>2. CASE own # A!DealRoom(c)
        BY <1>3, <2>2 DEF Booked, Rooms
  <2> QED BY <2>1, <2>2
<1>8. \A room \in Rooms : \A i \in 1 .. Len(mg[room]) : mg[room][i].stamp <= time
      BY <1>1, <1>2, <1>3 DEF Booked
<1>9. Booked(mg, time)
      BY <1>3, <1>6, <1>7, <1>8 DEF Booked
<1> QED BY <1>3, <1>4, <1>9 DEF mg

-----------------------------------------------------------------------------
(* A reader is where the rooms have brought it. *)

\* Fold s is what m lines of the offers room and n of the deal room make of a
\* new one.
Follows(s, lg, m, n) ==
    /\ m \in 0 .. Len(lg[OffersRoom])
    /\ \/ Prologue(s, lg[OffersRoom], m, n)
       \/ /\ s.contract \in Contracts /\ n \in 0 .. Len(lg[A!DealRoom(s.contract)])
          /\ Chapter(s, lg[OffersRoom], lg[A!DealRoom(s.contract)], m, n)

\* It stays so when the log grows.
LEMMA FollowsStays ==
    ASSUME NEW lg, NEW mg, NEW time, Booked(lg, time), Booked(mg, time), Grows(lg, mg),
           NEW s, NEW m, NEW n, Follows(s, lg, m, n)
    PROVE  Follows(s, mg, m, n)
<1> DEFINE T == lg[OffersRoom]
           U == mg[OffersRoom]
<1>1. /\ T \in Seq(Line) /\ U \in Seq(Line) /\ m \in 0 .. Len(T) /\ m \in 0 .. Len(U) /\ m \in Nat
      /\ Agree(T, U, m)
      BY DEF Follows, Booked, IsOffersRoom, Grows, Rooms, Agree
<1>2. Heard(U, m) = Heard(T, m) /\ (m > 0 => U[1] = T[1] /\ (Early(U) <=> Early(T)))
  <2>1. m > 0 => U[1] = T[1]
        BY <1>1 DEF Agree
  <2> QED BY <1>1, <2>1, LinesStay DEF Early, At
<1>3. CASE Prologue(s, T, m, n)
      BY <1>1, <1>2, <1>3 DEF Prologue, Follows
<1>4. CASE /\ s.contract \in Contracts /\ n \in 0 .. Len(lg[A!DealRoom(s.contract)])
           /\ Chapter(s, T, lg[A!DealRoom(s.contract)], m, n)
  <2> DEFINE L == lg[A!DealRoom(s.contract)]
             M == mg[A!DealRoom(s.contract)]
  <2>1. /\ A!DealRoom(s.contract) \in Rooms /\ L \in Seq(Line) /\ M \in Seq(Line)
        /\ n \in Nat /\ n \in 0 .. Len(M) /\ Agree(L, M, n)
        BY <1>4 DEF Booked, Grows, Rooms, Agree, IsRoom
  <2>2. Heard(M, n) = Heard(L, n)
        BY <2>1, LinesStay
  <2>3. Plot(s, s.contract, M, n)
    <3>1. Plot(s, s.contract, L, n)
          BY <1>4 DEF Chapter
    <3> HIDE DEF L, M
    <3> QED BY <2>1, <3>1, PlotStays
  <2>4. Chapter(s, U, M, m, n)
    <3>1. /\ m = 1 /\ Early(T) /\ s.accept = T[1].frame /\ s.contract = T[1].frame.contract
          /\ s.seen = {A!Fingerprint(s.accept)} \cup Heard(L, n)
          BY <1>4 DEF Chapter
    <3> HIDE DEF T, U, L, M
    <3> QED BY <1>2, <2>2, <2>3, <3>1 DEF Chapter
  <2> QED BY <1>1, <1>4, <2>1, <2>4 DEF Follows
<1> QED BY <1>3, <1>4 DEF Follows

\* The next line of the offers room, read while there is no contract.
LEMMA FollowsOffers ==
    ASSUME NEW lg, NEW time, Booked(lg, time), NEW s, NEW t, NEW m, NEW n, Follows(s, lg, m, n),
           s.contract = None, m < Len(lg[OffersRoom]), Folds(s, lg[OffersRoom][m + 1], t)
    PROVE  Follows(t, lg, m + 1, n)
<1> DEFINE T == lg[OffersRoom]
           L == lg[A!DealRoom(t.contract)]
<1>1. None \notin Contracts
      BY DealNoneAssumption
<1>2. Prologue(s, T, m, 0) /\ n = 0 /\ m \in Nat /\ IsOffersRoom(T) /\ m + 1 \in 0 .. Len(T)
  <2>1. Prologue(s, T, m, n)
        BY <1>1 DEF Follows
  <2>2. IsOffersRoom(T) /\ T \in Seq(Line)
        BY DEF Booked, IsOffersRoom
  <2> QED BY <2>1, <2>2 DEF Prologue, Follows
<1>3. Prologue(t, T, m + 1, 0) \/ Chapter(t, T, L, m + 1, 0)
      BY <1>2, PrologueGoesOn
<1>4. CASE Prologue(t, T, m + 1, 0)
      BY <1>2, <1>4 DEF Follows
<1>5. CASE Chapter(t, T, L, m + 1, 0)
  <2>1. T[1].frame \in Accepts
        BY <1>2, <1>5 DEF IsOffersRoom
  <2>2. t.contract \in Contracts
        BY <1>5, <2>1, AcceptFields DEF Chapter
  <2>3. L \in Seq(Line)
        BY <2>2 DEF Booked, IsRoom
  <2> QED BY <1>2, <1>5, <2>2, <2>3 DEF Follows
<1> QED BY <1>3, <1>4, <1>5

\* The next line of the room of its contract.
LEMMA FollowsDeal ==
    ASSUME NEW lg, NEW time, Booked(lg, time), NEW s, NEW t, NEW m, NEW n, Follows(s, lg, m, n),
           s.contract # None, n < Len(lg[A!DealRoom(s.contract)]),
           Folds(s, lg[A!DealRoom(s.contract)][n + 1], t)
    PROVE  Follows(t, lg, m, n + 1)
<1> DEFINE T == lg[OffersRoom]
           L == lg[A!DealRoom(s.contract)]
<1>1. s.contract \in Contracts /\ n \in 0 .. Len(L) /\ Chapter(s, T, L, m, n)
      BY DEF Follows, Prologue
<1>2. /\ IsOffersRoom(T) /\ T \in Seq(Line) /\ IsRoom(s.contract, L) /\ L \in Seq(Line) /\ m = 1
      /\ Len(T) >= 1 /\ n \in Nat /\ n + 1 \in 0 .. Len(L)
  <2>1. IsOffersRoom(T) /\ T \in Seq(Line) /\ IsRoom(s.contract, L) /\ L \in Seq(Line) /\ m = 1
        BY <1>1 DEF Booked, IsOffersRoom, IsRoom, Chapter
  <2> QED BY <1>1, <2>1 DEF Follows
<1>3. Chapter(t, T, L, m, n + 1)
      BY <1>1, <1>2, ChapterGoesOn
<1>4. t.contract = s.contract
      BY <1>1, <1>3 DEF Chapter
<1> QED BY <1>1, <1>2, <1>3, <1>4 DEF Follows

-----------------------------------------------------------------------------
(* Two readers of one log. *)

\* A room has one first end and one first settlement.
LEMMA OneFirst ==
    ASSUME NEW c, NEW L, NEW k \in Nat \ {0}, NEW l \in Nat \ {0},
           FirstEnd(c, L, k), FirstEnd(c, L, l)
    PROVE  /\ k = l
           /\ \A i, j \in Nat : FirstPay(c, L, k, i) /\ FirstPay(c, L, k, j) => i = j
<1>1. k = l
  <2>1. ~(k < l) /\ ~(l < k)
        BY DEF FirstEnd
  <2> QED BY <2>1
<1>2. ASSUME NEW i \in Nat, NEW j \in Nat, FirstPay(c, L, k, i), FirstPay(c, L, k, j)
      PROVE  i = j
  <2>1. ~(i < j) /\ ~(j < i)
        BY <1>2 DEF FirstPay
  <2> QED BY <2>1
<1> QED BY <1>1, <1>2

\* The ends that two readers of a deal see are one end, and with as many lines
\* read they are in one state.
LEMMA PlotsMeet ==
    ASSUME NEW c, NEW L, NEW n \in Nat, NEW q \in Nat, NEW s, NEW t,
           Plot(s, c, L, n), Plot(t, c, L, q)
    PROVE  /\ s.status \in A!Terminal /\ t.status \in A!Terminal
                   => s.status = t.status /\ s.secret = t.secret
           /\ n = q => s.status = t.status
<1>1. ASSUME s.status \in A!Terminal, t.status \in A!Terminal
      PROVE  s.status = t.status /\ s.secret = t.secret
  <2>1. CASE s.status = "cancelled" \/ t.status = "cancelled"
        BY <1>1, <2>1, OneFirst DEF Plot, A!Terminal
  <2>2. CASE s.status \in {"claimed", "refunded"} /\ t.status \in {"claimed", "refunded"}
    <3>1. PICK k, i \in 1 .. n :
              /\ FirstEnd(c, L, k) /\ FirstPay(c, L, k, i)
              /\ L[i].frame.type = IF s.status = "claimed" THEN "reveal" ELSE "refund"
          BY <2>2 DEF Plot
    <3>2. PICK l, j \in 1 .. q :
              /\ FirstEnd(c, L, l) /\ FirstPay(c, L, l, j)
              /\ L[j].frame.type = IF t.status = "claimed" THEN "reveal" ELSE "refund"
          BY <2>2 DEF Plot
    <3>3. k = l
          BY <3>1, <3>2, OneFirst
    <3>4. i = j
          BY <3>1, <3>2, <3>3, OneFirst
    <3>5. s.status = t.status
          BY <2>2, <3>1, <3>2, <3>4
    <3> QED BY <2>2, <3>5 DEF Plot
  <2> QED BY <1>1, <2>1, <2>2 DEF A!Terminal
<1>2. ASSUME n = q PROVE s.status = t.status
  <2>1. CASE s.status \in A!Terminal /\ t.status \in A!Terminal
        BY <1>1, <2>1
  <2>2. CASE s.status = "accepted" \/ t.status = "accepted"
        BY <1>2, <2>2 DEF Plot, FirstEnd, A!Terminal
  <2>3. CASE \/ s.status = "locked" /\ t.status = "cancelled"
             \/ t.status = "locked" /\ s.status = "cancelled"
        BY <2>3, OneFirst DEF Plot
  <2>4. ASSUME NEW u, NEW v, Plot(u, c, L, n), Plot(v, c, L, n), u.status = "locked",
               v.status \in {"claimed", "refunded"}
        PROVE  FALSE
    <3>1. PICK k \in 1 .. n : FirstEnd(c, L, k) /\ \A j \in k + 1 .. n : ~Pays(c, L, j)
          BY <2>4 DEF Plot
    <3>2. PICK l, j \in 1 .. n : FirstEnd(c, L, l) /\ FirstPay(c, L, l, j)
          BY <2>4 DEF Plot
    <3>3. k = l
          BY <3>1, <3>2, OneFirst
    <3> QED BY <3>1, <3>2, <3>3 DEF FirstPay
  <2>5. CASE s.status = "locked" /\ t.status \in {"claimed", "refunded"}
        BY <1>2, <2>4, <2>5
  <2>6. CASE t.status = "locked" /\ s.status \in {"claimed", "refunded"}
        BY <1>2, <2>4, <2>6
  <2>7. /\ s.status \in {"accepted", "locked", "claimed", "refunded", "cancelled"}
        /\ t.status \in {"accepted", "locked", "claimed", "refunded", "cancelled"}
        BY DEF Plot, A!Terminal
  <2>8. CASE s.status = "locked" /\ t.status = "locked"
        BY <2>8
  <2> QED BY <2>1, <2>2, <2>3, <2>5, <2>6, <2>7, <2>8 DEF A!Terminal
<1> QED BY <1>1, <1>2

\* So two followers of one log tell one story.
LEMMA ReadersAgree ==
    ASSUME NEW lg, NEW time, Booked(lg, time), NEW s, NEW m, NEW n, Follows(s, lg, m, n),
           NEW t, NEW p, NEW q, Follows(t, lg, p, q)
    PROVE  /\ s.contract # None /\ t.contract # None => s.contract = t.contract
           /\ s.status \in A!Terminal /\ t.status \in A!Terminal
                   => s.status = t.status /\ s.secret = t.secret
           /\ m = p /\ n = q => s.status = t.status /\ s.contract = t.contract
<1> DEFINE T == lg[OffersRoom]
           c == T[1].frame.contract
           L == lg[A!DealRoom(c)]
<1>1. \/ Prologue(s, T, m, n) /\ s.status = "proposed" /\ s.contract = None
      \/ s.contract = c /\ n \in 0 .. Len(L) /\ m = 1 /\ Early(T) /\ Plot(s, c, L, n) /\ c \in Contracts
      BY DEF Follows, Prologue, Chapter
<1>2. \/ Prologue(t, T, p, q) /\ t.status = "proposed" /\ t.contract = None
      \/ t.contract = c /\ q \in 0 .. Len(L) /\ p = 1 /\ Early(T) /\ Plot(t, c, L, q) /\ c \in Contracts
      BY DEF Follows, Prologue, Chapter
<1>3. c \in Contracts => L \in Seq(Line)
      BY DEF Booked, IsRoom
<1>4. (Prologue(s, T, m, n) /\ m = 1) \/ (Prologue(t, T, p, q) /\ p = 1) => ~Early(T)
      BY DEF Prologue
<1>5. CASE /\ s.contract = c /\ t.contract = c /\ Plot(s, c, L, n) /\ Plot(t, c, L, q)
           /\ n \in Nat /\ q \in Nat
      BY <1>5, PlotsMeet
<1> QED BY <1>1, <1>2, <1>3, <1>4, <1>5 DEF A!Terminal

-----------------------------------------------------------------------------
(* Secrets in the log. *)

\* The first acceptance in time is Bob's, of contract c, and a lock was the
\* first of the first n lines of its room to count.
Vouched(lg, c, n) ==
    LET T == lg[OffersRoom]
        L == lg[A!DealRoom(c)]
    IN  /\ Len(T) > 0 /\ Early(T) /\ T[1].frame.contract = c /\ T[1].frame.from = Bob
        /\ \E k \in 1 .. n : FirstEnd(c, L, k) /\ L[k].frame.type = "lock"

\* One of the first n lines of the room of c is a reveal that is new and in time.
Told(lg, c, n) ==
    LET L == lg[A!DealRoom(c)]
    IN  \E j \in 1 .. n :
            /\ L[j].frame.type = "reveal" /\ New(L, j) /\ At(L, j) < Offer.refundAfterMs

\* No secret is out before its lock, and if the window is safe the first is out
\* in time.
Redeemable(lg) ==
    \A c \in Contracts : \A i \in 1 .. Len(lg[A!DealRoom(c)]) :
        lg[A!DealRoom(c)][i].frame.type = "reveal" =>
            Vouched(lg, c, i - 1) /\ (WindowIsSafe => Told(lg, c, i))

\* What a log vouches for it vouches for when it has grown.
LEMMA VouchedStays ==
    ASSUME NEW lg, NEW mg, NEW time, Booked(lg, time), Booked(mg, time), Grows(lg, mg),
           NEW c \in Contracts, NEW n \in 0 .. Len(lg[A!DealRoom(c)])
    PROVE  /\ Vouched(lg, c, n) => Vouched(mg, c, n)
           /\ Told(lg, c, n) => Told(mg, c, n)
<1> DEFINE T == lg[OffersRoom]
           U == mg[OffersRoom]
           L == lg[A!DealRoom(c)]
           M == mg[A!DealRoom(c)]
<1>1. /\ T \in Seq(Line) /\ U \in Seq(Line) /\ L \in Seq(Line) /\ M \in Seq(Line)
      /\ A!DealRoom(c) \in Rooms /\ OffersRoom \in Rooms
      BY DEF Booked, Rooms, IsOffersRoom, IsRoom
<1>2. Len(T) <= Len(U) /\ Agree(T, U, Len(T)) /\ Agree(L, M, Len(L))
      BY <1>1 DEF Grows
<1>3. Len(T) > 0 => Len(U) > 0 /\ U[1] = T[1] /\ (Early(U) <=> Early(T))
  <2>1. Len(T) > 0 => U[1] = T[1]
        BY <1>1, <1>2 DEF Agree
  <2> QED BY <1>1, <1>2, <2>1 DEF Early, At
<1>4. n \in Nat /\ Agree(L, M, n)
      BY <1>1, <1>2 DEF Agree
<1>5. \A i \in 1 .. n : /\ M[i] = L[i] /\ (FirstEnd(c, M, i) <=> FirstEnd(c, L, i))
                        /\ (New(M, i) <=> New(L, i)) /\ At(M, i) = At(L, i)
      BY <1>4, LinesStay DEF Agree
<1> QED BY <1>3, <1>5 DEF Vouched, Told

\* A reveal enters a log that vouches for it, the first one in time.
LEMMA RevealEnters ==
    ASSUME NEW lg, NEW time \in Nat, Booked(lg, time), Redeemable(lg), NEW f \in Frames,
           f.type = "reveal" =>
               /\ Vouched(lg, f.contract, Len(lg[A!DealRoom(f.contract)]))
               /\ WindowIsSafe => \/ Told(lg, f.contract, Len(lg[A!DealRoom(f.contract)]))
                                  \/ time < Offer.refundAfterMs
    PROVE  Redeemable(Entered(lg, f, time))
<1> DEFINE mg == Entered(lg, f, time)
<1>1. /\ Booked(mg, time) /\ Grows(lg, mg)
      /\ \A room \in Rooms : mg[room] = IF room = RoomOf(f) THEN Grown(lg[room], f, time) ELSE lg[room]
      BY LogGrows
<1> HIDE DEF mg
<1> SUFFICES ASSUME NEW c \in Contracts, NEW i \in 1 .. Len(mg[A!DealRoom(c)]),
                    mg[A!DealRoom(c)][i].frame.type = "reveal"
             PROVE  Vouched(mg, c, i - 1) /\ (WindowIsSafe => Told(mg, c, i))
    BY DEF Redeemable, mg
<1> DEFINE L == lg[A!DealRoom(c)]
           M == mg[A!DealRoom(c)]
<1>2. /\ A!DealRoom(c) \in Rooms /\ IsRoom(c, L) /\ L \in Seq(Line) /\ InOrder(L)
      /\ Len(L) \in Nat /\ i \in Nat /\ Agree(L, M, Len(L))
      /\ \A j \in 1 .. Len(L) : L[j].stamp <= time
      /\ M \in Seq(Line)
  <2>1. A!DealRoom(c) \in Rooms
        BY DEF Rooms
  <2>2. IsRoom(c, L) /\ IsRoom(c, M)
        BY <1>1 DEF Booked
  <2>3. L \in Seq(Line) /\ InOrder(L) /\ M \in Seq(Line)
        BY <2>2 DEF IsRoom
  <2>4. Agree(L, M, Len(L))
        BY <1>1, <2>1 DEF Grows
  <2>5. \A j \in 1 .. Len(L) : L[j].stamp <= time
        BY <2>1 DEF Booked
  <2> HIDE DEF L, M
  <2>6. Len(L) \in Nat /\ Len(M) \in Nat
        BY <2>3
  <2> QED BY <2>1, <2>2, <2>3, <2>4, <2>5, <2>6 DEF L, M
<1>3. CASE i \in 1 .. Len(L)
  <2>1. L[i].frame.type = "reveal"
        BY <1>2, <1>3 DEF Agree
  <2>2. Vouched(lg, c, i - 1) /\ (WindowIsSafe => Told(lg, c, i))
        BY <1>3, <2>1 DEF Redeemable
  <2>3. i - 1 \in 0 .. Len(L) /\ i \in 0 .. Len(L)
        BY <1>2, <1>3
  <2> HIDE DEF L, M
  <2> QED BY <1>1, <2>2, <2>3, VouchedStays DEF L
<1>4. CASE i \notin 1 .. Len(L)
  <2>1. A!DealRoom(c) = RoomOf(f) /\ M = Grown(L, f, time)
        BY <1>1, <1>2, <1>4
  <2>2. f.contract = c
        BY <2>1, RoomsDiffer, FrameFields
  <2>3. /\ Len(M) = Len(L) + 1 /\ M[Len(L) + 1] = [frame |-> f, stamp |-> time]
    <3>1. L \in Seq(Line) /\ InOrder(L) /\ \A j \in 1 .. Len(L) : L[j].stamp <= time
          BY <1>2
    <3> HIDE DEF L, M
    <3> QED BY <2>1, <3>1, RoomGrows
  <2>4. i = Len(L) + 1 /\ i - 1 = Len(L) /\ M[i].frame = f /\ M[i].stamp = time /\ f.type = "reveal"
        BY <1>2, <1>4, <2>3
  <2>5. Vouched(mg, c, i - 1)
    <3>1. Len(L) \in 0 .. Len(L)
          BY <1>2
    <3> QED BY <1>1, <2>2, <2>4, <3>1, VouchedStays
  <2>6. CASE ~WindowIsSafe
        BY <2>5, <2>6
  <2>7. CASE WindowIsSafe /\ Told(lg, c, Len(L))
    <3>1. Len(L) \in 0 .. Len(L)
          BY <1>2
    <3>2. Told(mg, c, Len(L))
          BY <1>1, <2>7, <3>1, VouchedStays
    <3>3. 1 .. Len(L) \subseteq 1 .. i
          BY <1>2, <2>4
    <3> QED BY <2>5, <3>2, <3>3 DEF Told
  <2>8. CASE WindowIsSafe /\ ~Told(lg, c, Len(L))
    <3>1. time < Offer.refundAfterMs
          BY <2>2, <2>4, <2>8
    <3>2. At(M, i) \in Nat /\ At(M, i) <= time
      <4>1. time <= time
            OBVIOUS
      <4> QED BY <2>4, <4>1, WholeSeconds DEF At
    <3>3. New(M, i)
      <4>1. SUFFICES ASSUME NEW j \in 1 .. Len(L), L[j].frame = f PROVE FALSE
            BY <1>2, <2>4 DEF New, Agree
      <4>2. Told(lg, c, j)
            BY <2>4, <2>8, <4>1 DEF Redeemable
      <4>3. 1 .. j \subseteq 1 .. Len(L)
            BY <1>2
      <4> QED BY <2>8, <4>2, <4>3 DEF Told
    <3>4. At(M, i) < Offer.refundAfterMs
          BY <3>1, <3>2, DealOfferAssumption
    <3>5. Told(mg, c, i)
          BY <2>4, <3>3, <3>4 DEF Told
    <3> QED BY <2>5, <3>5
  <2> QED BY <2>6, <2>7, <2>8
<1> QED BY <1>3, <1>4

\* Who reads a log with a secret in it does not see a refund.
LEMMA NoRefundSeen ==
    ASSUME WindowIsSafe, NEW lg, NEW time, Booked(lg, time), Redeemable(lg),
           NEW s, NEW m, NEW n, Follows(s, lg, m, n),
           NEW c \in Contracts, NEW i \in 1 .. Len(lg[A!DealRoom(c)]),
           lg[A!DealRoom(c)][i].frame.type = "reveal"
    PROVE  s.status # "refunded"
<1> DEFINE T == lg[OffersRoom]
           L == lg[A!DealRoom(c)]
<1> SUFFICES ASSUME s.status = "refunded" PROVE FALSE
    OBVIOUS
<1>1. /\ T[1].frame.contract = c /\ T[1].frame.from = Bob /\ Len(T) > 0
      /\ \E j \in 1 .. i : L[j].frame.type = "reveal" /\ New(L, j) /\ At(L, j) < Offer.refundAfterMs
      BY DEF Redeemable, Vouched, Told
<1>2. PICK j \in 1 .. i : L[j].frame.type = "reveal" /\ New(L, j) /\ At(L, j) < Offer.refundAfterMs
      BY <1>1
<1>3. IsRoom(c, L) /\ IsOffersRoom(T) /\ L \in Seq(Line) /\ T \in Seq(Line)
      BY DEF Booked, IsRoom, IsOffersRoom
<1>4. j \in 1 .. Len(L) /\ j \in Nat
      BY <1>3
<1>5. \E k \in 1 .. j - 1 : FirstEnd(c, L, k) /\ L[k].frame.type = "lock"
      BY <1>2, <1>4 DEF Redeemable, Vouched
<1>6. c[2] = Bob
  <2>1. T[1].frame \in Accepts
        BY <1>1, <1>3 DEF IsOffersRoom
  <2> QED BY <1>1, <2>1, AcceptFields DEF A!ContractId
<1>7. s.contract = c /\ Plot(s, c, L, n) /\ n \in 0 .. Len(L)
      BY <1>1 DEF Follows, Prologue, Chapter
<1>8. PICK l, p \in 1 .. n : FirstEnd(c, L, l) /\ FirstPay(c, L, l, p) /\ L[p].frame.type = "refund"
      BY <1>7 DEF Plot
<1>9. l < j
  <2>1. PICK k \in 1 .. j - 1 : FirstEnd(c, L, k)
        BY <1>5
  <2>2. k = l
        BY <1>4, <1>7, <1>8, <2>1, OneFirst
  <2> QED BY <1>4, <2>1, <2>2
<1>10. L[j].frame.from = Bob
  <2>1. L[j].frame \in Frames
        BY <1>3, <1>4, Lines
  <2> QED BY <1>2, <2>1, FrameFields DEF BuildReveal
<1>11. Pays(c, L, j)
      BY <1>2, <1>6, <1>10 DEF Pays
<1>12. p <= j
      BY <1>3, <1>4, <1>7, <1>8, <1>9, <1>11 DEF FirstPay
<1>13. At(L, p) >= Offer.refundAfterMs
      BY <1>8 DEF FirstPay, Pays
<1>14. At(L, p) \in Nat /\ At(L, j) \in Nat /\ At(L, p) <= At(L, j)
      BY <1>3, <1>4, <1>7, <1>8, <1>12, Lines
<1> QED BY <1>2, <1>13, <1>14, DealOfferAssumption

-----------------------------------------------------------------------------
(* The inductive invariant. *)

VenueInv ==
    /\ now \in 0 .. MaxNow /\ trouble \in 0 .. MaxTrouble /\ said \subseteq Frames
    /\ Booked(log, now) /\ Redeemable(log)

\* A post is not under way for too long, and a secret is sent in its window,
\* for a lock that counts.
FlightInv ==
    \A m \in flight :
        /\ m.frame \in Frames /\ m.sent \in Nat /\ m.sent <= now /\ now <= m.sent + MaxDelay
        /\ m.frame.type = "reveal" =>
               /\ m.sent < Offer.claimByMs
               /\ Vouched(log, m.frame.contract, Len(log[A!DealRoom(m.frame.contract)]))

ReadInv == read \in [{Alice, Bob} -> [offers : Nat, deal : Nat]]

AliceInv ==
    /\ Follows(AliceFold, log, read[Alice].offers, read[Alice].deal)
    /\ ~A!Raised /\ aMoved.stamp \in Nat /\ aLast.verdict \in Verdicts

BobInv ==
    /\ Follows(BobFold, log, read[Bob].offers, read[Bob].deal)
    /\ ~B!Raised /\ bMoved.stamp \in Nat /\ bLast.verdict \in Verdicts

DealInv == VenueInv /\ FlightInv /\ ReadInv /\ AliceInv /\ BobInv

LEMMA InitDeal == DealInit => DealInv
<1> SUFFICES ASSUME DealInit PROVE DealInv
    OBVIOUS
<1>1. \A room \in Rooms : log[room] = <<>> /\ Len(log[room]) = 0 /\ log[room] \in Seq(Line)
      BY DEF DealInit, Rooms
<1>2. Booked(log, now) /\ Redeemable(log)
  <2>1. log \in [Rooms -> Seq(Line)]
        BY <1>1 DEF DealInit, Rooms
  <2> QED BY <1>1, <2>1 DEF Booked, Redeemable, IsOffersRoom, IsRoom, InOrder, Rooms
<1>3. VenueInv /\ FlightInv
      BY <1>2, ClockAssumption DEF VenueInv, FlightInv, DealInit
<1>4. ReadInv /\ \A agent \in {Alice, Bob} : read[agent].offers = 0 /\ read[agent].deal = 0
      BY DEF DealInit, ReadInv
<1>5. AliceInv
      BY <1>1, <1>4 DEF AliceInv, DealInit, A!Init, A!Raised, AliceFold, Follows, Prologue,
         Heard, Verdicts, Rooms
<1>6. BobInv
      BY <1>1, <1>4 DEF BobInv, DealInit, B!Init, B!Raised, BobFold, Follows, Prologue, Heard,
         Verdicts, Rooms
<1> QED BY <1>3, <1>4, <1>5, <1>6 DEF DealInv

\* What a reader's place in the log says of its state.
LEMMA FollowersHold ==
    ASSUME NEW lg, NEW time, Booked(lg, time), NEW s, NEW m, NEW n, Follows(s, lg, m, n)
    PROVE  /\ Held(s) /\ s.contract \in Contracts \cup {None}
           /\ s.status \in A!Terminal \cup {"proposed", "accepted", "locked"}
           /\ s.secret \in {Secret, None}
           /\ s.status # "proposed" => /\ s.contract \in Contracts /\ s.accept \in Accepts
                                       /\ s.accept = lg[OffersRoom][1].frame
<1>1. CASE Prologue(s, lg[OffersRoom], m, n)
      BY <1>1 DEF Prologue, Held
<1>2. CASE /\ s.contract \in Contracts /\ n \in 0 .. Len(lg[A!DealRoom(s.contract)])
           /\ Chapter(s, lg[OffersRoom], lg[A!DealRoom(s.contract)], m, n)
  <2>1. lg[OffersRoom][1].frame \in Accepts
        BY <1>2 DEF Follows, Booked, IsOffersRoom, Chapter
  <2>2. s.accept \in Accepts /\ s.accept # None
        BY <1>2, <2>1, DealNoneAssumption DEF Chapter, Frames
  <2> QED BY <1>2, <2>2 DEF Chapter, Plot, Held
<1> QED BY <1>1, <1>2 DEF Follows

-----------------------------------------------------------------------------
(* The venue's steps. *)

\* A step of the venue that enters nothing, or one frame, in the log.
LEMMA EntryKeeps ==
    ASSUME DealInv, UNCHANGED <<now, read, alice, bob>>, flight' \subseteq flight,
           said' \subseteq said, trouble' \in 0 .. MaxTrouble,
           NEW f \in Frames, log' \in {log, Stored(f)},
           f.type = "reveal" =>
               /\ Vouched(log, f.contract, Len(log[A!DealRoom(f.contract)]))
               /\ WindowIsSafe => \/ Told(log, f.contract, Len(log[A!DealRoom(f.contract)]))
                                  \/ now < Offer.refundAfterMs
    PROVE  DealInv'
<1>1. /\ now \in Nat /\ Booked(log, now) /\ Redeemable(log)
      /\ now' = now /\ read' = read /\ AliceFold' = AliceFold /\ BobFold' = BobFold
      BY ClockAssumption DEF DealInv, VenueInv, AliceFold, BobFold, alice, bob
<1>2. Booked(log', now) /\ Redeemable(log') /\ Grows(log, log')
  <2>1. CASE log' = log
    <3>1. Grows(log, log)
          BY <1>1 DEF Grows, Agree, Booked
    <3> QED BY <1>1, <2>1, <3>1
  <2>2. CASE log' = Stored(f)
    <3>1. log' = Entered(log, f, now)
          BY <2>2 DEF Stored, Entered
    <3> QED BY <1>1, <3>1, LogGrows, RevealEnters
  <2> QED BY <2>1, <2>2
<1>3. VenueInv'
      BY <1>1, <1>2 DEF DealInv, VenueInv
<1>4. FlightInv'
  <2>1. SUFFICES ASSUME NEW m \in flight
                 PROVE  /\ m.frame \in Frames /\ m.sent \in Nat /\ m.sent <= now
                        /\ now <= m.sent + MaxDelay
                        /\ m.frame.type = "reveal" =>
                               /\ m.sent < Offer.claimByMs
                               /\ Vouched(log', m.frame.contract,
                                          Len(log'[A!DealRoom(m.frame.contract)]))
        BY <1>1 DEF FlightInv
  <2>2. CASE m.frame.type # "reveal"
        BY <2>2 DEF DealInv, FlightInv
  <2>3. CASE m.frame.type = "reveal"
    <3> DEFINE c == m.frame.contract
               n == Len(log[A!DealRoom(c)])
    <3>1. m.frame \in Frames /\ m.sent < Offer.claimByMs /\ Vouched(log, c, n)
          BY <2>3 DEF DealInv, FlightInv
    <3>2. c \in Contracts /\ A!DealRoom(c) \in Rooms
          BY <3>1, FrameFields DEF Rooms
    <3>3. n \in Nat /\ Len(log'[A!DealRoom(c)]) \in Nat /\ n <= Len(log'[A!DealRoom(c)])
          BY <1>1, <1>2, <3>2 DEF Booked, IsRoom, Grows
    <3>4. Vouched(log', c, n)
      <4>1. n \in 0 .. n
            BY <3>3
      <4> QED BY <1>1, <1>2, <3>1, <3>2, <4>1, VouchedStays
    <3>5. 1 .. n \subseteq 1 .. Len(log'[A!DealRoom(c)])
          BY <3>3
    <3>6. Vouched(log', c, Len(log'[A!DealRoom(c)]))
          BY <3>4, <3>5 DEF Vouched
    <3> QED BY <3>1, <3>6 DEF DealInv, FlightInv
  <2> QED BY <2>2, <2>3
<1>5. AliceInv'
  <2>1. Follows(AliceFold, log', read[Alice].offers, read[Alice].deal)
        BY <1>1, <1>2, FollowsStays DEF DealInv, AliceInv
  <2> QED BY <1>1, <2>1 DEF DealInv, AliceInv, alice, A!Raised
<1>6. BobInv'
  <2>1. Follows(BobFold, log', read[Bob].offers, read[Bob].deal)
        BY <1>1, <1>2, FollowsStays DEF DealInv, BobInv
  <2> QED BY <1>1, <2>1 DEF DealInv, BobInv, bob, B!Raised
<1>7. ReadInv'
      BY <1>1 DEF DealInv, ReadInv
<1> QED BY <1>3, <1>4, <1>5, <1>6, <1>7 DEF DealInv

\* A secret under way was sent in time to be stored in time, in a safe window.
LEMMA FlightArrives ==
    ASSUME DealInv, NEW m \in flight
    PROVE  /\ m.frame \in Frames
           /\ m.frame.type = "reveal" =>
                  /\ Vouched(log, m.frame.contract, Len(log[A!DealRoom(m.frame.contract)]))
                  /\ WindowIsSafe => now < Offer.refundAfterMs
BY DealOfferAssumption, ClockAssumption DEF DealInv, FlightInv, VenueInv, WindowIsSafe

\* What is posted is a frame of the parties, in the room where it belongs.
LEMMA PostedLines ==
    ASSUME DealInv, NEW r \in Posted
    PROVE  /\ r.frame \in Frames /\ r.stamp \in Nat /\ r.stamp <= now
           /\ r.frame.type # "accept" =>
                  \E i \in 1 .. Len(log[A!DealRoom(r.frame.contract)]) :
                      log[A!DealRoom(r.frame.contract)][i] = r
<1>1. /\ log \in [Rooms -> Seq(Line)] /\ IsOffersRoom(log[OffersRoom])
      /\ \A c \in Contracts : IsRoom(c, log[A!DealRoom(c)])
      BY DEF DealInv, VenueInv, Booked
<1>2. PICK room \in Rooms : \E i \in 1 .. Len(log[room]) : r = log[room][i]
      BY <1>1 DEF Posted
<1>3. log[room] \in Seq(Line)
      BY <1>1
<1>4. PICK i \in 1 .. Len(log[room]) : r = log[room][i] /\ r \in Line /\ r.stamp <= now
  <2>1. PICK i \in 1 .. Len(log[room]) : r = log[room][i]
        BY <1>2
  <2>2. r \in Line
        BY <1>3, <2>1
  <2> QED BY <2>1, <2>2 DEF DealInv, VenueInv, Booked
<1>5. r.frame \in Frames /\ r.stamp \in Nat
      BY <1>4 DEF Line
<1>6. CASE room = OffersRoom
  <2>1. r.frame \in Accepts
        BY <1>1, <1>4, <1>6 DEF IsOffersRoom
  <2> QED BY <1>4, <1>5, <2>1, AcceptFields
<1>7. ASSUME NEW c \in Contracts, room = A!DealRoom(c)
      PROVE  \E j \in 1 .. Len(log[A!DealRoom(r.frame.contract)]) :
                 log[A!DealRoom(r.frame.contract)][j] = r
  <2>1. r.frame.contract = c
        BY <1>1, <1>4, <1>7 DEF IsRoom
  <2> QED BY <1>4, <1>7, <2>1
<1> QED BY <1>4, <1>5, <1>6, <1>7 DEF Rooms

\* No step of the venue disturbs the invariant: what arrives was sent in its
\* window, and what is replayed was there before.
LEMMA VenueKeeps ==
    ASSUME DealInv, Venue
    PROVE  DealInv'
<1>1. trouble \in 0 .. MaxTrouble /\ (trouble < MaxTrouble => trouble + 1 \in 0 .. MaxTrouble)
      BY ClockAssumption DEF DealInv, VenueInv
<1>2. ASSUME NEW m \in flight, Arrive(m) \/ Lose(m)
      PROVE  DealInv'
  <2>1. /\ UNCHANGED <<now, read, alice, bob>> /\ flight' \subseteq flight /\ said' \subseteq said
        /\ trouble' \in 0 .. MaxTrouble /\ log' \in {log, Stored(m.frame)}
        BY <1>1, <1>2 DEF Arrive, Lose
  <2> QED BY <2>1, FlightArrives, EntryKeeps
<1>3. ASSUME NEW r \in Posted, Replay(r)
      PROVE  DealInv'
  <2>1. /\ UNCHANGED <<now, read, alice, bob>> /\ flight' \subseteq flight /\ said' \subseteq said
        /\ trouble' \in 0 .. MaxTrouble /\ log' \in {log, Stored(r.frame)}
        BY <1>1, <1>3 DEF Replay
  <2>2. ASSUME r.frame.type = "reveal"
        PROVE  /\ Vouched(log, r.frame.contract, Len(log[A!DealRoom(r.frame.contract)]))
               /\ WindowIsSafe =>
                      Told(log, r.frame.contract, Len(log[A!DealRoom(r.frame.contract)]))
    <3> DEFINE c == r.frame.contract
               L == log[A!DealRoom(c)]
    <3>1. c \in Contracts /\ \E i \in 1 .. Len(L) : L[i] = r
          BY <2>2, PostedLines, FrameFields
    <3>2. PICK i \in 1 .. Len(L) : L[i] = r
          BY <3>1
    <3>3. Vouched(log, c, i - 1) /\ (WindowIsSafe => Told(log, c, i))
          BY <2>2, <3>1, <3>2 DEF DealInv, VenueInv, Redeemable
    <3>4. Len(L) \in Nat
          BY <3>1 DEF DealInv, VenueInv, Booked, IsRoom
    <3>5. 1 .. i - 1 \subseteq 1 .. Len(L) /\ 1 .. i \subseteq 1 .. Len(L)
          BY <3>4
    <3> QED BY <3>3, <3>5 DEF Vouched, Told
  <2> QED BY <2>1, <2>2, PostedLines, EntryKeeps
<1>4. CASE Tick
  <2>1. /\ now' = now + 1 /\ now' \in 0 .. MaxNow /\ now \in Nat
        /\ UNCHANGED <<log, flight, said, trouble, read, alice, bob>>
        BY <1>4, ClockAssumption DEF Tick, DealInv, VenueInv
  <2>2. \A room \in Rooms : \A i \in 1 .. Len(log[room]) : log[room][i].stamp \in Nat
    <3>1. log \in [Rooms -> Seq(Line)]
          BY DEF DealInv, VenueInv, Booked
    <3>2. \A room \in Rooms : \A i \in 1 .. Len(log[room]) : log[room][i] \in Line
          BY <3>1
    <3> QED BY <3>2 DEF Line
  <2>3. Booked(log, now')
        BY <2>1, <2>2 DEF DealInv, VenueInv, Booked
  <2>4. VenueInv'
        BY <2>1, <2>3 DEF DealInv, VenueInv
  <2>5. FlightInv'
    <3>1. \A m \in flight : m.sent \in Nat /\ m.sent <= now + 1 /\ now + 1 <= m.sent + MaxDelay
          BY <1>4, <2>1, ClockAssumption DEF Tick, DealInv, FlightInv
    <3> QED BY <2>1, <3>1 DEF DealInv, FlightInv
  <2>6. ReadInv' /\ AliceInv' /\ BobInv'
        BY <2>1 DEF DealInv, ReadInv, AliceInv, BobInv, AliceFold, BobFold, alice, bob,
           A!Raised, B!Raised
  <2> QED BY <2>4, <2>5, <2>6 DEF DealInv
<1> QED BY <1>2, <1>3, <1>4 DEF Venue

-----------------------------------------------------------------------------
(* The agents' steps. *)

\* An agent posts a frame; a secret in its window, for a lock that counts.
LEMMA PostKeeps ==
    ASSUME DealInv, NEW f \in Frames, Post(f), trouble' \in 0 .. MaxTrouble,
           f.type = "reveal" => /\ now < Offer.claimByMs
                                /\ Vouched(log, f.contract, Len(log[A!DealRoom(f.contract)]))
    PROVE  DealInv'
<1>1. /\ now \in Nat /\ UNCHANGED <<now, log, read, alice, bob>>
      /\ flight' = flight \cup {[frame |-> f, sent |-> now]} /\ said' = said \cup {f}
      BY ClockAssumption DEF Post, DealInv, VenueInv
<1>2. VenueInv'
      BY <1>1 DEF DealInv, VenueInv
<1>3. FlightInv'
  <2>1. SUFFICES ASSUME NEW m \in flight'
                 PROVE  /\ m.frame \in Frames /\ m.sent \in Nat /\ m.sent <= now
                        /\ now <= m.sent + MaxDelay
                        /\ m.frame.type = "reveal" =>
                               /\ m.sent < Offer.claimByMs
                               /\ Vouched(log, m.frame.contract,
                                          Len(log[A!DealRoom(m.frame.contract)]))
        BY <1>1 DEF FlightInv
  <2>2. CASE m \in flight
        BY <2>2 DEF DealInv, FlightInv
  <2>3. CASE m \notin flight
    <3>1. m.frame = f /\ m.sent = now
          BY <1>1, <2>3
    <3>2. now <= now + MaxDelay
          BY <1>1, ClockAssumption
    <3> QED BY <1>1, <3>1, <3>2
  <2> QED BY <2>2, <2>3
<1>4. ReadInv' /\ AliceInv' /\ BobInv'
      BY <1>1 DEF DealInv, ReadInv, AliceInv, BobInv, AliceFold, BobFold, alice, bob, A!Raised,
         B!Raised
<1> QED BY <1>2, <1>3, <1>4 DEF DealInv

\* A line of the log is a record that a reader can use.
LEMMA GivenIsReadable ==
    ASSUME DealInv, NEW room \in Rooms, NEW i \in 1 .. Len(log[room])
    PROVE  /\ Readable(Given(log[room][i]))
           /\ Given(log[room][i]).frame = log[room][i].frame
           /\ Given(log[room][i]).stamp = log[room][i].stamp
<1>1. log[room] \in Seq(Line)
      BY DEF DealInv, VenueInv, Booked
<1>2. log[room][i] \in Line
      BY <1>1
<1>3. log[room][i].frame \in Frames /\ log[room][i].stamp \in Nat
      BY <1>2 DEF Line
<1> QED BY <1>3 DEF Given, Readable

\* A fold takes the frame and the stamp of a line, and nothing else.
LEMMA FoldsGiven ==
    ASSUME NEW s, NEW t, NEW line, Folds(s, Given(line), t)
    PROVE  Folds(s, line, t)
<1>1. Given(line).frame = line.frame /\ Given(line).stamp = line.stamp
      BY DEF Given
<1> QED BY <1>1 DEF Folds

\* What an agent reads next, and what it has read then.
LEMMA ReadsNext ==
    ASSUME DealInv, NEW agent \in {Alice, Bob}, NEW c \in Contracts \cup {None},
           NEW r \in Unread(agent, c),
           read' = Counted(agent, c)
    PROVE  /\ ReadInv' /\ \A other \in {Alice, Bob} \ {agent} : read'[other] = read[other]
           /\ Readable(r)
           /\ c = None =>
                  /\ read'[agent].offers = read[agent].offers + 1 /\ read'[agent].deal = read[agent].deal
                  /\ read[agent].offers < Len(log[OffersRoom])
                  /\ r = Given(log[OffersRoom][read[agent].offers + 1])
           /\ c # None =>
                  /\ read'[agent].deal = read[agent].deal + 1 /\ read'[agent].offers = read[agent].offers
                  /\ read[agent].deal < Len(log[A!DealRoom(c)])
                  /\ r = Given(log[A!DealRoom(c)][read[agent].deal + 1])
<1>1. /\ read \in [{Alice, Bob} -> [offers : Nat, deal : Nat]]
      /\ read[agent] \in [offers : Nat, deal : Nat]
      BY DEF DealInv, ReadInv
<1>2. CASE c = None
  <2>1. read' = [read EXCEPT ![agent]["offers"] = @ + 1]
        BY <1>2 DEF Counted
  <2>2. /\ read[agent].offers < Len(log[OffersRoom]) /\ r = Given(log[OffersRoom][read[agent].offers + 1])
        BY <1>2 DEF Unread
  <2>3. read[agent].offers + 1 \in 1 .. Len(log[OffersRoom]) /\ OffersRoom \in Rooms
    <3>1. log[OffersRoom] \in Seq(Line)
          BY DEF DealInv, VenueInv, Booked, IsOffersRoom
    <3> QED BY <1>1, <2>2, <3>1 DEF Rooms
  <2>4. Readable(r)
        BY <2>2, <2>3, GivenIsReadable
  <2> QED BY <1>1, <1>2, <2>1, <2>2, <2>4 DEF ReadInv
<1>3. CASE c # None
  <2>1. read' = [read EXCEPT ![agent]["deal"] = @ + 1]
        BY <1>3 DEF Counted
  <2>2. /\ read[agent].deal < Len(log[A!DealRoom(c)]) /\ r = Given(log[A!DealRoom(c)][read[agent].deal + 1])
        BY <1>3 DEF Unread
  <2>3. read[agent].deal + 1 \in 1 .. Len(log[A!DealRoom(c)]) /\ A!DealRoom(c) \in Rooms
    <3>1. log[A!DealRoom(c)] \in Seq(Line)
          BY <1>3 DEF DealInv, VenueInv, Booked, IsRoom
    <3> QED BY <1>1, <1>3, <2>2, <3>1 DEF Rooms
  <2>4. Readable(r)
        BY <2>2, <2>3, GivenIsReadable
  <2> QED BY <1>1, <1>3, <2>1, <2>2, <2>4 DEF ReadInv
<1> QED BY <1>2, <1>3

\* An agent that reads a line follows the log one line further.
LEMMA AliceReadsKeeps ==
    ASSUME DealInv, AliceReads
    PROVE  DealInv'
<1>1. PICK r \in Unread(Alice, aContract) :
          A!FoldRecord(r) /\ read' = Counted(Alice, aContract) /\ UNCHANGED <<venue, bob>>
      BY DEF AliceReads
<1>2. Booked(log, now) /\ Follows(AliceFold, log, read[Alice].offers, read[Alice].deal) /\ ~A!Raised
      BY DEF DealInv, VenueInv, AliceInv
<1>3. Held(AliceFold) /\ aContract \in Contracts \cup {None} /\ AliceFold.contract = aContract
      BY <1>2, FollowersHold DEF AliceFold
<1>4. /\ ReadInv' /\ Readable(r) /\ read'[Bob] = read[Bob]
      /\ aContract = None =>
             /\ read'[Alice].offers = read[Alice].offers + 1 /\ read'[Alice].deal = read[Alice].deal
             /\ read[Alice].offers < Len(log[OffersRoom])
             /\ r = Given(log[OffersRoom][read[Alice].offers + 1])
      /\ aContract # None =>
             /\ read'[Alice].deal = read[Alice].deal + 1 /\ read'[Alice].offers = read[Alice].offers
             /\ read[Alice].deal < Len(log[A!DealRoom(aContract)])
             /\ r = Given(log[A!DealRoom(aContract)][read[Alice].deal + 1])
      BY <1>1, <1>3, ReadsNext, PartiesAssumption
<1>5. Folds(AliceFold, r, AliceFold') /\ ~A!Raised'
      BY <1>1, <1>2, <1>3, <1>4, AliceFolds
<1>6. Follows(AliceFold', log, read'[Alice].offers, read'[Alice].deal)
  <2>1. CASE aContract = None
    <3>1. Folds(AliceFold, log[OffersRoom][read[Alice].offers + 1], AliceFold')
          BY <1>4, <1>5, <2>1, FoldsGiven
    <3> QED BY <1>2, <1>3, <1>4, <2>1, <3>1, FollowsOffers
  <2>2. CASE aContract # None
    <3>1. Folds(AliceFold, log[A!DealRoom(aContract)][read[Alice].deal + 1], AliceFold')
          BY <1>4, <1>5, <2>2, FoldsGiven
    <3> QED BY <1>2, <1>3, <1>4, <2>2, <3>1, FollowsDeal
  <2> QED BY <2>1, <2>2
<1>7. aMoved'.stamp \in Nat /\ aLast'.verdict \in Verdicts
      BY <1>1, <1>4 DEF DealInv, AliceInv, Readable, Verdicts, A!FoldRecord, A!Accept, A!Lock,
         A!Reveal, A!Refund,
         A!Cancel, A!Heartbeat, A!Reject, A!Skip, A!Raise, A!MoveTo, A!Remember, A!deal
<1>8. AliceInv'
      BY <1>1, <1>5, <1>6, <1>7 DEF AliceInv, venue
<1>9. VenueInv' /\ FlightInv' /\ BobInv'
      BY <1>1, <1>4 DEF DealInv, VenueInv, FlightInv, BobInv, BobFold, venue, bob, B!Raised
<1> QED BY <1>4, <1>8, <1>9 DEF DealInv

LEMMA BobReadsKeeps ==
    ASSUME DealInv, BobReads
    PROVE  DealInv'
<1>1. PICK r \in Unread(Bob, bContract) :
          B!FoldRecord(r) /\ read' = Counted(Bob, bContract) /\ UNCHANGED <<venue, alice>>
      BY DEF BobReads
<1>2. Booked(log, now) /\ Follows(BobFold, log, read[Bob].offers, read[Bob].deal) /\ ~B!Raised
      BY DEF DealInv, VenueInv, BobInv
<1>3. Held(BobFold) /\ bContract \in Contracts \cup {None} /\ BobFold.contract = bContract
      BY <1>2, FollowersHold DEF BobFold
<1>4. /\ ReadInv' /\ Readable(r) /\ read'[Alice] = read[Alice]
      /\ bContract = None =>
             /\ read'[Bob].offers = read[Bob].offers + 1 /\ read'[Bob].deal = read[Bob].deal
             /\ read[Bob].offers < Len(log[OffersRoom])
             /\ r = Given(log[OffersRoom][read[Bob].offers + 1])
      /\ bContract # None =>
             /\ read'[Bob].deal = read[Bob].deal + 1 /\ read'[Bob].offers = read[Bob].offers
             /\ read[Bob].deal < Len(log[A!DealRoom(bContract)])
             /\ r = Given(log[A!DealRoom(bContract)][read[Bob].deal + 1])
      BY <1>1, <1>3, ReadsNext, PartiesAssumption
<1>5. Folds(BobFold, r, BobFold') /\ ~B!Raised'
      BY <1>1, <1>2, <1>3, <1>4, BobFolds
<1>6. Follows(BobFold', log, read'[Bob].offers, read'[Bob].deal)
  <2>1. CASE bContract = None
    <3>1. Folds(BobFold, log[OffersRoom][read[Bob].offers + 1], BobFold')
          BY <1>4, <1>5, <2>1, FoldsGiven
    <3> QED BY <1>2, <1>3, <1>4, <2>1, <3>1, FollowsOffers
  <2>2. CASE bContract # None
    <3>1. Folds(BobFold, log[A!DealRoom(bContract)][read[Bob].deal + 1], BobFold')
          BY <1>4, <1>5, <2>2, FoldsGiven
    <3> QED BY <1>2, <1>3, <1>4, <2>2, <3>1, FollowsDeal
  <2> QED BY <2>1, <2>2
<1>7. bMoved'.stamp \in Nat /\ bLast'.verdict \in Verdicts
      BY <1>1, <1>4 DEF DealInv, BobInv, Readable, Verdicts, B!FoldRecord, B!Accept, B!Lock,
         B!Reveal, B!Refund,
         B!Cancel, B!Heartbeat, B!Reject, B!Skip, B!Raise, B!MoveTo, B!Remember, B!deal
<1>8. BobInv'
      BY <1>1, <1>5, <1>6, <1>7 DEF BobInv, venue
<1>9. VenueInv' /\ FlightInv' /\ AliceInv'
      BY <1>1, <1>4
         DEF DealInv, VenueInv, FlightInv, AliceInv, AliceFold, venue, alice, A!Raised
<1> QED BY <1>4, <1>8, <1>9 DEF DealInv

\* A deal that Bob saw locked is one that the log vouches for.
LEMMA BobsLock ==
    ASSUME DealInv, bStatus = "locked", B!Payee = Bob
    PROVE  /\ bContract \in Contracts
           /\ Vouched(log, bContract, Len(log[A!DealRoom(bContract)]))
<1> DEFINE T == log[OffersRoom]
           n == read[Bob].deal
<1>1. Booked(log, now) /\ Follows(BobFold, log, read[Bob].offers, n)
      BY DEF DealInv, VenueInv, BobInv
<1>2. BobFold.status = "locked" /\ BobFold.contract = bContract /\ BobFold.accept = bAccept
      BY DEF BobFold
<1> DEFINE L == log[A!DealRoom(bContract)]
<1>3. bContract \in Contracts /\ n \in 0 .. Len(L) /\ Chapter(BobFold, T, L, read[Bob].offers, n)
      BY <1>1, <1>2 DEF Follows, Prologue
<1>4. T \in Seq(Line) /\ L \in Seq(Line)
      BY <1>1, <1>3 DEF Booked, IsOffersRoom, IsRoom
<1>5. Early(T) /\ T[1].frame = bAccept /\ T[1].frame.contract = bContract /\ Len(T) > 0
  <2>1. Early(T) /\ T[1].frame = bAccept /\ T[1].frame.contract = bContract /\ read[Bob].offers = 1
        BY <1>2, <1>3 DEF Chapter
  <2>2. read[Bob].offers \in 0 .. Len(T) /\ Len(T) \in Nat
        BY <1>1, <1>4 DEF Follows
  <2> QED BY <2>1, <2>2
<1>6. bAccept.from = Bob
  <2>1. T[1].frame \in Accepts
        BY <1>1, <1>4, <1>5 DEF Booked, IsOffersRoom
  <2>2. bAccept # None
        BY <1>5, <2>1, DealNoneAssumption DEF Frames
  <2> QED BY <2>2, DealOfferAssumption DEF B!Payee, B!Accepter
<1>7. \E k \in 1 .. n : FirstEnd(bContract, L, k) /\ L[k].frame.type = "lock"
      BY <1>2, <1>3 DEF Chapter, Plot
<1>8. 1 .. n \subseteq 1 .. Len(L)
      BY <1>3, <1>4
<1> QED BY <1>3, <1>5, <1>6, <1>7, <1>8 DEF Vouched

\* What the agents post keeps the invariant; only for Bob's secret is there
\* something to show.
LEMMA PostsKeep ==
    ASSUME DealInv,
           \/ AliceLocks \/ AliceRefunds \/ AliceCancels
           \/ BobAccepts \/ BobReveals \/ BobCancels \/ CarolAccepts
    PROVE  DealInv'
<1>1. /\ trouble \in 0 .. MaxTrouble /\ (trouble < MaxTrouble => trouble + 1 \in 0 .. MaxTrouble)
      /\ Booked(log, now)
      BY ClockAssumption DEF DealInv, VenueInv
<1>2. aStatus # "proposed" => aContract \in Contracts
      BY <1>1, FollowersHold DEF DealInv, AliceInv, AliceFold
<1>3. bStatus # "proposed" => bContract \in Contracts
      BY <1>1, FollowersHold DEF DealInv, BobInv, BobFold
<1>4. ASSUME NEW f \in Frames, f.type # "reveal", Send(f) \/ SendMore(f)
      PROVE  DealInv'
      BY <1>1, <1>4, PostKeeps DEF Send, SendMore
<1>5. CASE AliceLocks
  <2>1. BuildLock(Alice, aContract) \in Frames /\ BuildLock(Alice, aContract).type # "reveal"
        BY <1>2, <1>5 DEF AliceLocks, Frames, BuildLock
  <2> QED BY <1>4, <1>5, <2>1 DEF AliceLocks
<1>6. CASE AliceRefunds
  <2>1. BuildRefund(Alice, aContract) \in Frames /\ BuildRefund(Alice, aContract).type # "reveal"
        BY <1>2, <1>6 DEF AliceRefunds, Frames, BuildRefund, Bare
  <2> QED BY <1>4, <1>6, <2>1 DEF AliceRefunds
<1>7. CASE AliceCancels
  <2>1. BuildCancel(Alice, aContract) \in Frames /\ BuildCancel(Alice, aContract).type # "reveal"
        BY <1>2, <1>7 DEF AliceCancels, Frames, BuildCancel, Bare
  <2> QED BY <1>4, <1>7, <2>1 DEF AliceCancels
<1>8. CASE BobCancels
  <2>1. BuildCancel(Bob, bContract) \in Frames /\ BuildCancel(Bob, bContract).type # "reveal"
        BY <1>3, <1>8 DEF BobCancels, Frames, BuildCancel, Bare
  <2> QED BY <1>4, <1>8, <2>1 DEF BobCancels
<1>9. CASE BobAccepts
  <2>1. BobsAccept \in Frames /\ BobsAccept.type # "reveal"
        BY AcceptFields DEF Frames, Accepts
  <2> QED BY <1>4, <1>9, <2>1 DEF BobAccepts
<1>10. CASE CarolAccepts
  <2>1. CarolsAccept \in Frames /\ CarolsAccept.type # "reveal"
        BY AcceptFields DEF Frames, Accepts
  <2> QED BY <1>4, <1>10, <2>1 DEF CarolAccepts
<1>11. CASE BobReveals
  <2> DEFINE f == BuildReveal(Bob, bContract)
  <2>1. /\ bContract \in Contracts /\ now < Offer.claimByMs
        /\ Vouched(log, bContract, Len(log[A!DealRoom(bContract)]))
        BY <1>11, BobsLock DEF BobReveals, ClaimBy
  <2>2. f \in Frames /\ f.contract = bContract
        BY <2>1 DEF Frames, BuildReveal
  <2>3. Post(f) /\ trouble' \in 0 .. MaxTrouble
        BY <1>1, <1>11 DEF BobReveals, Send
  <2> HIDE DEF f
  <2> QED BY <2>1, <2>2, <2>3, PostKeeps
<1> QED BY <1>5, <1>6, <1>7, <1>8, <1>9, <1>10, <1>11

LEMMA NextDeal ==
    ASSUME DealInv, [DealNext]_dealVars
    PROVE  DealInv'
<1>1. CASE UNCHANGED dealVars
      BY <1>1 DEF dealVars, venue, alice, bob, DealInv, VenueInv, FlightInv, ReadInv, AliceInv,
         BobInv, AliceFold, BobFold, A!Raised, B!Raised
<1>2. CASE DealNext
      BY <1>2, VenueKeeps, AliceReadsKeeps, BobReadsKeeps, PostsKeep DEF DealNext, Agents
<1> QED BY <1>1, <1>2

LEMMA DealInvariance == DealSpec => []DealInv
BY InitDeal, NextDeal, PTL DEF DealSpec

-----------------------------------------------------------------------------
(* What follows from the invariant. *)

\* Every variable keeps its type: what is under way or posted is a valid frame
\* that one of the builders made, with a time that has passed, and both agents'
\* folds are in a state of the fold that is not an exception's.
LEMMA InvType == DealInv => DealTypeOK
<1> SUFFICES ASSUME DealInv PROVE DealTypeOK
    OBVIOUS
<1>1. Booked(log, now) /\ now \in Nat
      BY ClockAssumption DEF DealInv, VenueInv
<1>2. \A m \in flight : m.frame \in Frames /\ m.sent \in 0 .. now
      BY <1>1 DEF DealInv, FlightInv
<1>3. \A r \in Posted : r.frame \in Frames /\ A!ValidFrame(r.frame) /\ r.stamp \in 0 .. now
      BY <1>1, PostedLines, FramesAreValid
<1>4. A!TypeOK
  <2>1. /\ AliceFold.status \in A!Terminal \cup {"proposed", "accepted", "locked"}
        /\ AliceFold.secret \in {Secret, None}
        BY <1>1, FollowersHold DEF DealInv, AliceInv
  <2> QED BY <2>1 DEF AliceFold, A!TypeOK, A!Terminal, DealInv, AliceInv, Verdicts
<1>5. B!TypeOK
  <2>1. /\ BobFold.status \in A!Terminal \cup {"proposed", "accepted", "locked"}
        /\ BobFold.secret \in {Secret, None}
        BY <1>1, FollowersHold DEF DealInv, BobInv
  <2> QED BY <2>1, OneCode DEF BobFold, B!TypeOK, A!Terminal, DealInv, BobInv, Verdicts
<1> QED BY <1>2, <1>3, <1>4, <1>5 DEF DealTypeOK, DealInv, VenueInv

\* The types of the deal: every frame under way or posted is one the builders
\* make and the reader's validator takes, and neither fold has raised.
THEOREM DealTypeCorrect == DealSpec => []DealTypeOK
BY DealInvariance, InvType, PTL

LEMMA InvOneStory == DealInv => OneStory
<1> SUFFICES ASSUME DealInv PROVE OneStory
    OBVIOUS
<1>1. /\ Booked(log, now)
      /\ Follows(AliceFold, log, read[Alice].offers, read[Alice].deal)
      /\ Follows(BobFold, log, read[Bob].offers, read[Bob].deal)
      BY DEF DealInv, VenueInv, AliceInv, BobInv
<1>2. /\ aContract # None /\ bContract # None => aContract = bContract
      /\ aStatus \in A!Terminal /\ bStatus \in A!Terminal => aStatus = bStatus /\ aSecret = bSecret
      /\ /\ read[Alice].offers = read[Bob].offers /\ read[Alice].deal = read[Bob].deal
         => aStatus = bStatus /\ aContract = bContract
      BY <1>1, ReadersAgree DEF AliceFold, BobFold
<1> QED BY <1>2 DEF OneStory

\* Two agents that fold a growing log at their own pace never hold different
\* contracts or different ends of a deal, whatever was posted, lost, delayed or
\* replayed, and hold the same state whenever they have read as much.
THEOREM OneStoryHolds == DealSpec => []OneStory
BY DealInvariance, InvOneStory, PTL

LEMMA InvRevealIsPaid ==
    ASSUME WindowIsSafe
    PROVE  DealInv => RevealIsPaid
<1> SUFFICES ASSUME DealInv, NEW r \in Posted, r.frame.type = "reveal"
             PROVE  aStatus # "refunded" /\ bStatus # "refunded"
    BY DEF RevealIsPaid
<1> DEFINE c == r.frame.contract
<1>1. c \in Contracts /\ \E i \in 1 .. Len(log[A!DealRoom(c)]) : log[A!DealRoom(c)][i] = r
      BY PostedLines, FrameFields
<1>2. PICK i \in 1 .. Len(log[A!DealRoom(c)]) : log[A!DealRoom(c)][i].frame.type = "reveal"
      BY <1>1
<1>3. /\ Booked(log, now) /\ Redeemable(log)
      /\ Follows(AliceFold, log, read[Alice].offers, read[Alice].deal)
      /\ Follows(BobFold, log, read[Bob].offers, read[Bob].deal)
      BY DEF DealInv, VenueInv, AliceInv, BobInv
<1>4. AliceFold.status # "refunded" /\ BobFold.status # "refunded"
      BY <1>1, <1>2, <1>3, NoRefundSeen
<1> QED BY <1>4 DEF AliceFold, BobFold

\* A payee that reveals only before claimByMs is paid once its post arrives: as
\* long as a post takes no longer than the claim window, no reader ever sees the
\* deal of a posted secret refunded.
THEOREM RevealsArePaid ==
    ASSUME WindowIsSafe
    PROVE  DealSpec => []RevealIsPaid
<1>1. DealInv => RevealIsPaid
      BY InvRevealIsPaid
<1> QED BY <1>1, DealInvariance, PTL

-----------------------------------------------------------------------------
(* Refunds that are due. *)

\* A lock is among the first n lines of the room of c, the first to end the
\* acceptance.
LockedBy(c, L, n) == \E k \in 1 .. n : FirstEnd(c, L, k) /\ L[k].frame.type = "lock"

\* A refund is among them that was not there before.
AskedBy(L, n) == \E j \in 1 .. n : L[j].frame.type = "refund" /\ New(L, j)

\* No refund is posted before it is due or before the lock is.
RefundsPosted(lg) ==
    \A c \in Contracts : \A i \in 1 .. Len(lg[A!DealRoom(c)]) :
        lg[A!DealRoom(c)][i].frame.type = "refund" =>
            /\ lg[A!DealRoom(c)][i].stamp >= Offer.refundAfterMs
            /\ LockedBy(c, lg[A!DealRoom(c)], i - 1)
            /\ AskedBy(lg[A!DealRoom(c)], i)

RefundsSent ==
    \A m \in flight : m.frame.type = "refund" =>
        /\ m.sent >= Offer.refundAfterMs
        /\ LockedBy(m.frame.contract, log[A!DealRoom(m.frame.contract)],
                    Len(log[A!DealRoom(m.frame.contract)]))

RefundInv == RefundsPosted(log) /\ RefundsSent

LEMMA LockStays ==
    ASSUME NEW lg, NEW mg, NEW time, Booked(lg, time), Booked(mg, time), Grows(lg, mg),
           NEW c \in Contracts
    PROVE  /\ \A n \in 0 .. Len(lg[A!DealRoom(c)]) :
                  /\ LockedBy(c, lg[A!DealRoom(c)], n) => LockedBy(c, mg[A!DealRoom(c)], n)
                  /\ AskedBy(lg[A!DealRoom(c)], n) => AskedBy(mg[A!DealRoom(c)], n)
           /\ LockedBy(c, lg[A!DealRoom(c)], Len(lg[A!DealRoom(c)])) =>
                  LockedBy(c, mg[A!DealRoom(c)], Len(mg[A!DealRoom(c)]))
<1> DEFINE L == lg[A!DealRoom(c)]
           M == mg[A!DealRoom(c)]
<1>1. /\ A!DealRoom(c) \in Rooms /\ L \in Seq(Line) /\ M \in Seq(Line)
      /\ Len(L) \in Nat /\ Len(M) \in Nat /\ Len(L) <= Len(M) /\ Agree(L, M, Len(L))
  <2>1. A!DealRoom(c) \in Rooms /\ IsRoom(c, L) /\ IsRoom(c, M)
        BY DEF Booked, Rooms
  <2>2. Len(L) <= Len(M) /\ Agree(L, M, Len(L))
        BY <2>1 DEF Grows
  <2> HIDE DEF L, M
  <2> QED BY <2>1, <2>2 DEF IsRoom
<1> HIDE DEF L, M
<1>2. ASSUME NEW n \in 0 .. Len(L)
      PROVE  /\ LockedBy(c, L, n) => LockedBy(c, M, n)
             /\ AskedBy(L, n) => AskedBy(M, n)
  <2>1. n \in Nat /\ Agree(L, M, n)
        BY <1>1 DEF Agree
  <2>2. \A i \in 1 .. n : /\ M[i] = L[i] /\ (New(M, i) <=> New(L, i))
                          /\ FirstEnd(c, M, i) <=> FirstEnd(c, L, i)
        BY <2>1, LinesStay DEF Agree
  <2> QED BY <2>2 DEF LockedBy, AskedBy
<1>3. ASSUME LockedBy(c, L, Len(L)) PROVE LockedBy(c, M, Len(M))
  <2>1. Len(L) \in 0 .. Len(L) /\ 1 .. Len(L) \subseteq 1 .. Len(M)
        BY <1>1
  <2>2. LockedBy(c, M, Len(L))
        BY <1>2, <1>3, <2>1
  <2> QED BY <2>1, <2>2 DEF LockedBy
<1> QED BY <1>2, <1>3 DEF L, M

\* A refund enters a log when it is due, after the lock.
LEMMA RefundEnters ==
    ASSUME NEW lg, NEW time \in Nat, Booked(lg, time), RefundsPosted(lg), NEW f \in Frames,
           f.type = "refund" =>
               /\ time >= Offer.refundAfterMs
               /\ LockedBy(f.contract, lg[A!DealRoom(f.contract)],
                           Len(lg[A!DealRoom(f.contract)]))
    PROVE  RefundsPosted(Entered(lg, f, time))
<1> DEFINE mg == Entered(lg, f, time)
<1>1. /\ Booked(mg, time) /\ Grows(lg, mg)
      /\ \A room \in Rooms :
             mg[room] = IF room = RoomOf(f) THEN Grown(lg[room], f, time) ELSE lg[room]
      BY LogGrows
<1> HIDE DEF mg
<1> SUFFICES ASSUME NEW c \in Contracts, NEW i \in 1 .. Len(mg[A!DealRoom(c)]),
                    mg[A!DealRoom(c)][i].frame.type = "refund"
             PROVE  /\ mg[A!DealRoom(c)][i].stamp >= Offer.refundAfterMs
                    /\ LockedBy(c, mg[A!DealRoom(c)], i - 1)
                    /\ AskedBy(mg[A!DealRoom(c)], i)
    BY DEF RefundsPosted, mg
<1> DEFINE L == lg[A!DealRoom(c)]
           M == mg[A!DealRoom(c)]
<1>2. A!DealRoom(c) \in Rooms /\ IsRoom(c, L) /\ IsRoom(c, M)
      BY <1>1 DEF Booked, Rooms
<1>3. Agree(L, M, Len(L)) /\ \A j \in 1 .. Len(L) : L[j].stamp <= time
      BY <1>1, <1>2 DEF Booked, Grows
<1>4. \A n \in 0 .. Len(L) : /\ LockedBy(c, L, n) => LockedBy(c, M, n)
                             /\ AskedBy(L, n) => AskedBy(M, n)
      BY <1>1, LockStays
<1>5. /\ A!DealRoom(c) = RoomOf(f) => M = Grown(L, f, time) /\ f.contract = c
      /\ A!DealRoom(c) # RoomOf(f) => M = L
      BY <1>1, <1>2, RoomsDiffer, FrameFields
<1>6. \A j \in 1 .. Len(L) : L[j].frame.type = "refund" =>
          L[j].stamp >= Offer.refundAfterMs /\ LockedBy(c, L, j - 1) /\ AskedBy(L, j)
      BY DEF RefundsPosted
<1>7. /\ f.type = "refund" /\ f.contract = c =>
             time >= Offer.refundAfterMs /\ LockedBy(c, L, Len(L))
      /\ i \in 1 .. Len(M) /\ M[i].frame.type = "refund"
      OBVIOUS
<1> SUFFICES M[i].stamp >= Offer.refundAfterMs /\ LockedBy(c, M, i - 1) /\ AskedBy(M, i)
    OBVIOUS
<1> HIDE DEF L, M
<1>8. L \in Seq(Line) /\ M \in Seq(Line) /\ InOrder(L) /\ Len(L) \in Nat /\ i \in Nat
      BY <1>2 DEF IsRoom
<1>9. CASE i \in 1 .. Len(L)
  <2>1. M[i] = L[i] /\ i - 1 \in 0 .. Len(L) /\ i \in 0 .. Len(L)
        BY <1>3, <1>8, <1>9 DEF Agree
  <2>2. L[i].stamp >= Offer.refundAfterMs /\ LockedBy(c, L, i - 1) /\ AskedBy(L, i)
        BY <1>6, <1>7, <1>9, <2>1
  <2>3. LockedBy(c, M, i - 1)
        BY <1>4, <2>1, <2>2
  <2>4. AskedBy(M, i)
        BY <1>4, <2>1, <2>2
  <2> QED BY <2>1, <2>2, <2>3, <2>4
<1>10. CASE i \notin 1 .. Len(L)
  <2>1. M = Grown(L, f, time) /\ f.contract = c
        BY <1>5, <1>7, <1>10
  <2>2. /\ Len(M) = Len(L) + 1 /\ M[Len(L) + 1] = [frame |-> f, stamp |-> time]
        BY <1>3, <1>8, <2>1, RoomGrows
  <2>3. i - 1 = Len(L) /\ M[i].frame = f /\ M[i].stamp = time /\ i - 1 \in 0 .. Len(L)
        BY <1>7, <1>8, <1>10, <2>2
  <2>4. AskedBy(M, i)
    <3>1. CASE AskedBy(L, Len(L))
      <4>1. Len(L) \in 0 .. Len(L) /\ 1 .. Len(L) \subseteq 1 .. i
            BY <1>8, <2>3
      <4>2. AskedBy(M, Len(L))
            BY <1>4, <3>1, <4>1
      <4> QED BY <4>1, <4>2 DEF AskedBy
    <3>2. CASE ~AskedBy(L, Len(L))
      <4>1. \A j \in 1 .. Len(L) : 1 .. j \subseteq 1 .. Len(L)
            BY <1>8
      <4>2. \A j \in 1 .. Len(L) : L[j].frame.type # "refund"
            BY <1>6, <3>2, <4>1 DEF AskedBy
      <4>3. New(M, i)
            BY <1>3, <1>7, <2>3, <4>2 DEF New, Agree
      <4>4. i \in 1 .. i
            BY <1>7, <1>8
      <4> QED BY <1>7, <4>3, <4>4 DEF AskedBy
    <3> QED BY <3>1, <3>2
  <2>5. LockedBy(c, M, i - 1)
    <3>1. LockedBy(c, L, i - 1)
          BY <1>7, <2>1, <2>3
    <3> QED BY <1>4, <2>3, <3>1
  <2> QED BY <1>7, <2>1, <2>3, <2>4, <2>5
<1> QED BY <1>9, <1>10

\* Alice posts a refund for a lock that the log holds.
LEMMA AlicesLock ==
    ASSUME DealInv, aStatus = "locked"
    PROVE  /\ aContract \in Contracts
           /\ LockedBy(aContract, log[A!DealRoom(aContract)], Len(log[A!DealRoom(aContract)]))
<1> DEFINE L == log[A!DealRoom(aContract)]
           n == read[Alice].deal
<1>1. Booked(log, now) /\ Follows(AliceFold, log, read[Alice].offers, n)
      BY DEF DealInv, VenueInv, AliceInv
<1>2. AliceFold.status = "locked" /\ AliceFold.contract = aContract
      BY DEF AliceFold
<1>3. /\ aContract \in Contracts /\ n \in 0 .. Len(L)
      /\ Chapter(AliceFold, log[OffersRoom], L, read[Alice].offers, n)
      BY <1>1, <1>2 DEF Follows, Prologue
<1>4. \E k \in 1 .. n : FirstEnd(aContract, L, k) /\ L[k].frame.type = "lock"
      BY <1>2, <1>3 DEF Chapter, Plot
<1>5. L \in Seq(Line)
      BY <1>1, <1>3 DEF Booked, IsRoom
<1>6. 1 .. n \subseteq 1 .. Len(L)
      BY <1>3, <1>5
<1> QED BY <1>3, <1>4, <1>6 DEF LockedBy

LEMMA EntryKeepsRefunds ==
    ASSUME DealInv, RefundInv, now' = now, flight' \subseteq flight,
           NEW f \in Frames, log' \in {log, Stored(f)},
           f.type = "refund" =>
               /\ now >= Offer.refundAfterMs
               /\ LockedBy(f.contract, log[A!DealRoom(f.contract)],
                           Len(log[A!DealRoom(f.contract)]))
    PROVE  RefundInv'
<1>1. now \in Nat /\ Booked(log, now) /\ RefundsPosted(log)
      BY ClockAssumption DEF DealInv, VenueInv, RefundInv
<1>2. Booked(log', now) /\ RefundsPosted(log') /\ Grows(log, log')
  <2>1. CASE log' = log
    <3>1. Grows(log, log)
          BY <1>1 DEF Grows, Agree, Booked
    <3> QED BY <1>1, <2>1, <3>1
  <2>2. CASE log' = Stored(f)
    <3>1. log' = Entered(log, f, now)
          BY <2>2 DEF Stored, Entered
    <3> QED BY <1>1, <3>1, LogGrows, RefundEnters
  <2> QED BY <2>1, <2>2
<1>3. RefundsSent'
  <2>1. SUFFICES ASSUME NEW m \in flight, m.frame.type = "refund"
                 PROVE  /\ m.sent >= Offer.refundAfterMs
                        /\ LockedBy(m.frame.contract, log'[A!DealRoom(m.frame.contract)],
                                    Len(log'[A!DealRoom(m.frame.contract)]))
        BY DEF RefundsSent
  <2>2. m.frame.contract \in Contracts
        BY FrameFields DEF DealInv, FlightInv
  <2> QED BY <1>1, <1>2, <2>1, <2>2, LockStays DEF RefundInv, RefundsSent
<1> QED BY <1>2, <1>3 DEF RefundInv

LEMMA PostKeepsRefunds ==
    ASSUME DealInv, RefundInv, NEW f \in Frames, Post(f),
           f.type = "refund" =>
               /\ now >= Offer.refundAfterMs
               /\ LockedBy(f.contract, log[A!DealRoom(f.contract)],
                           Len(log[A!DealRoom(f.contract)]))
    PROVE  RefundInv'
<1>1. log' = log /\ flight' = flight \cup {[frame |-> f, sent |-> now]}
      BY DEF Post
<1>2. RefundsSent'
  <2>1. SUFFICES ASSUME NEW m \in flight', m.frame.type = "refund"
                 PROVE  /\ m.sent >= Offer.refundAfterMs
                        /\ LockedBy(m.frame.contract, log[A!DealRoom(m.frame.contract)],
                                    Len(log[A!DealRoom(m.frame.contract)]))
        BY <1>1 DEF RefundsSent
  <2>2. CASE m \in flight
        BY <2>1, <2>2 DEF RefundInv, RefundsSent
  <2>3. CASE m \notin flight
        BY <1>1, <2>1, <2>3
  <2> QED BY <2>2, <2>3
<1> QED BY <1>1, <1>2 DEF RefundInv, RefundsPosted

LEMMA NextRefunds ==
    ASSUME DealInv, RefundInv, [DealNext]_dealVars
    PROVE  RefundInv'
<1>1. CASE log' = log /\ flight' = flight
      BY <1>1 DEF RefundInv, RefundsPosted, RefundsSent
<1>2. ASSUME NEW m \in flight, Arrive(m) \/ Lose(m)
      PROVE  RefundInv'
  <2>1. /\ now' = now /\ flight' \subseteq flight /\ log' \in {log, Stored(m.frame)}
        BY <1>2 DEF Arrive, Lose
  <2>2. m.frame \in Frames /\ m.sent <= now /\ m.sent \in Nat /\ now \in Nat
        BY ClockAssumption DEF DealInv, FlightInv, VenueInv
  <2>3. m.frame.type = "refund" =>
            /\ now >= Offer.refundAfterMs
            /\ LockedBy(m.frame.contract, log[A!DealRoom(m.frame.contract)],
                        Len(log[A!DealRoom(m.frame.contract)]))
        BY <2>2, DealOfferAssumption DEF RefundInv, RefundsSent
  <2> QED BY <2>1, <2>2, <2>3, EntryKeepsRefunds
<1>3. ASSUME NEW r \in Posted, Replay(r)
      PROVE  RefundInv'
  <2>1. /\ now' = now /\ flight' \subseteq flight /\ log' \in {log, Stored(r.frame)}
        BY <1>3 DEF Replay
  <2>2. r.frame \in Frames /\ r.stamp \in Nat /\ r.stamp <= now /\ now \in Nat
        BY PostedLines, ClockAssumption DEF DealInv, VenueInv
  <2>3. ASSUME r.frame.type = "refund"
        PROVE  /\ now >= Offer.refundAfterMs
               /\ LockedBy(r.frame.contract, log[A!DealRoom(r.frame.contract)],
                           Len(log[A!DealRoom(r.frame.contract)]))
    <3> DEFINE c == r.frame.contract
               L == log[A!DealRoom(c)]
    <3>1. c \in Contracts /\ \E i \in 1 .. Len(L) : L[i] = r
          BY <2>3, PostedLines, FrameFields
    <3>2. PICK i \in 1 .. Len(L) : L[i] = r
          BY <3>1
    <3>3. r.stamp >= Offer.refundAfterMs /\ LockedBy(c, L, i - 1)
          BY <2>3, <3>1, <3>2 DEF RefundInv, RefundsPosted
    <3>4. Len(L) \in Nat
          BY <3>1 DEF DealInv, VenueInv, Booked, IsRoom
    <3>5. 1 .. i - 1 \subseteq 1 .. Len(L)
          BY <3>4
    <3> QED BY <2>2, <3>3, <3>5, DealOfferAssumption DEF LockedBy
  <2> QED BY <2>1, <2>2, <2>3, EntryKeepsRefunds
<1>4. CASE \/ AliceLocks \/ AliceCancels
           \/ BobAccepts \/ BobReveals \/ BobCancels \/ CarolAccepts
  <2>1. /\ aStatus # "proposed" => aContract \in Contracts
        /\ bStatus # "proposed" => bContract \in Contracts
        BY FollowersHold DEF DealInv, VenueInv, AliceInv, BobInv, AliceFold, BobFold
  <2>2. \E f \in Frames : f.type # "refund" /\ Post(f)
    <3>1. CASE AliceLocks
          BY <2>1, <3>1 DEF AliceLocks, Send, Frames, BuildLock
    <3>2. CASE AliceCancels
          BY <2>1, <3>2 DEF AliceCancels, SendMore, Frames, BuildCancel, Bare
    <3>3. CASE BobCancels
          BY <2>1, <3>3 DEF BobCancels, SendMore, Frames, BuildCancel, Bare
    <3>4. CASE BobReveals
          BY <2>1, <3>4 DEF BobReveals, Send, Frames, BuildReveal
    <3>5. CASE BobAccepts \/ CarolAccepts
          BY <3>5, AcceptFields DEF BobAccepts, CarolAccepts, Send, SendMore, Frames, Accepts
    <3> QED BY <1>4, <3>1, <3>2, <3>3, <3>4, <3>5
  <2> QED BY <2>2, PostKeepsRefunds
<1>5. CASE AliceRefunds
  <2> DEFINE f == BuildRefund(Alice, aContract)
  <2>1. /\ aContract \in Contracts /\ now >= Offer.refundAfterMs /\ Post(f)
        /\ LockedBy(aContract, log[A!DealRoom(aContract)], Len(log[A!DealRoom(aContract)]))
        BY <1>5, AlicesLock DEF AliceRefunds, RefundDue, Send
  <2>2. f \in Frames /\ f.contract = aContract
        BY <2>1 DEF Frames, BuildRefund, Bare
  <2> HIDE DEF f
  <2> QED BY <2>1, <2>2, PostKeepsRefunds
<1>6. CASE UNCHANGED dealVars \/ Tick \/ AliceReads \/ BobReads
  <2>1. log' = log /\ flight' = flight
        BY <1>6 DEF dealVars, venue, Tick, AliceReads, BobReads
  <2> QED BY <1>1, <2>1
<1> QED BY <1>2, <1>3, <1>4, <1>5, <1>6 DEF DealNext, Venue, Agents

LEMMA RefundInvariance == DealSpec => [](DealInv /\ RefundInv)
<1>1. DealInit => DealInv /\ RefundInv
  <2>1. ASSUME DealInit PROVE RefundInv
    <3>1. \A c \in Contracts : Len(log[A!DealRoom(c)]) = 0
          BY <2>1 DEF DealInit
    <3> QED BY <2>1, <3>1 DEF DealInit, RefundInv, RefundsPosted, RefundsSent
  <2> QED BY <2>1, InitDeal
<1>2. (DealInv /\ RefundInv) /\ [DealNext]_dealVars => (DealInv /\ RefundInv)'
      BY NextDeal, NextRefunds
<1> QED BY <1>1, <1>2, PTL DEF DealSpec

\* A stamp at or after a deadline on a whole second is not cut below it.
LEMMA SecondIsKept ==
    ASSUME NEW x \in Nat, NEW y \in Nat, x <= y, x % Second = 0
    PROVE  A!WholeSecond(y) >= x
<1>1. A!WholeSecond(x) = x
  <2>1. x = Second * (x \div Second) + (x % Second)
        BY SecondAssumption
  <2>2. Second * (x \div Second) \in Nat
        BY SecondAssumption
  <2> QED BY <2>1, <2>2, SecondAssumption DEF A!WholeSecond
<1> QED BY <1>1, WholeSeconds

\* In a room whose refunds are due and behind the lock, with a deadline on a
\* whole second, the first refund settles the lock: if nothing has, there is none.
LEMMA FirstRefundIsNew ==
    ASSUME Offer.refundAfterMs % Second = 0, NEW c, NEW L, IsRoom(c, L),
           \A i \in 1 .. Len(L) : L[i].frame.type = "refund" =>
               L[i].stamp >= Offer.refundAfterMs /\ LockedBy(c, L, i - 1) /\ AskedBy(L, i),
           NEW n \in Nat, n < Len(L), NEW k \in 1 .. n, FirstEnd(c, L, k),
           \A j \in k + 1 .. n : ~Pays(c, L, j),
           L[n + 1].frame.type = "refund"
    PROVE  New(L, n + 1)
<1>1. SUFFICES ASSUME NEW i \in 1 .. n, L[i].frame.type = "refund" PROVE FALSE
      BY DEF New
<1>2. i \in 1 .. Len(L) /\ i \in Nat
      BY DEF IsRoom
<1>3. PICK j \in 1 .. i : L[j].frame.type = "refund" /\ New(L, j)
      BY <1>1, <1>2 DEF AskedBy
<1>4. j \in 1 .. Len(L) /\ j \in 1 .. n /\ j \in Nat
      BY <1>2
<1>5. L[j].stamp >= Offer.refundAfterMs /\ LockedBy(c, L, j - 1)
      BY <1>3, <1>4
<1>6. PICK l \in 1 .. j - 1 : FirstEnd(c, L, l)
      BY <1>5 DEF LockedBy
<1>7. l = k
      BY <1>4, <1>6, OneFirst
<1>8. j \in k + 1 .. n
      BY <1>4, <1>6, <1>7
<1>9. At(L, j) >= Offer.refundAfterMs
  <2>1. L[j].stamp \in Nat
        BY <1>4, Lines
  <2> QED BY <1>5, <2>1, SecondIsKept, DealOfferAssumption DEF At
<1>10. Pays(c, L, j)
       BY <1>3, <1>9 DEF Pays
<1> QED BY <1>8, <1>10

\* The only refunds that are stamped when they are due and do not count are
\* those of an offer whose deadline lies inside a second: if it does not, the
\* first refund a payer reads for its lock, stamped at the deadline or later,
\* refunds the deal, whatever was replayed before.
THEOREM WholeSecondRefundsCount ==
    ASSUME Offer.refundAfterMs % Second = 0
    PROVE  DealSpec => DueRefundCounts
<1> DEFINE Counts == \A r \in Unread(Alice, aContract) :
               /\ aStatus = "locked" /\ read'[Alice] # read[Alice]
               /\ r.frame.type = "refund" /\ r.stamp >= Offer.refundAfterMs
               => aStatus' = "refunded"
<1>1. ASSUME DealInv, RefundInv, [DealNext]_dealVars PROVE [Counts]_dealVars
  <2> SUFFICES ASSUME NEW r \in Unread(Alice, aContract),
                      aStatus = "locked", read'[Alice] # read[Alice],
                      r.frame.type = "refund", r.stamp >= Offer.refundAfterMs
               PROVE  aStatus' = "refunded"
      OBVIOUS
  <2> DEFINE c == aContract
             L == log[A!DealRoom(c)]
             n == read[Alice].deal
  <2>1. AliceReads
    <3>1. ~BobReads
      <4>1. SUFFICES ASSUME BobReads PROVE FALSE
            OBVIOUS
      <4>2. read' = Counted(Bob, bContract) /\ ReadInv
            BY <1>1, <4>1 DEF BobReads, DealInv
      <4> QED BY <4>2, PartiesAssumption DEF Counted, ReadInv
    <3>2. ~(read' = read)
          OBVIOUS
    <3> QED BY <1>1, <3>1, <3>2
        DEF dealVars, DealNext, Venue, Arrive, Lose, Replay, Tick, Agents, AliceLocks, AliceRefunds,
            AliceCancels, BobAccepts, BobReveals, BobCancels, CarolAccepts, Send, SendMore, Post
  <2>2. c \in Contracts /\ c # None /\ LockedBy(c, L, Len(L))
        BY <1>1, AlicesLock, DealNoneAssumption
  <2>3. PICK q \in Unread(Alice, c) : A!FoldRecord(q) /\ read' = Counted(Alice, c)
        BY <2>1 DEF AliceReads
  <2>4. n < Len(L) /\ q = Given(L[n + 1]) /\ r = q /\ Readable(q)
        BY <1>1, <2>2, <2>3, ReadsNext DEF Unread
  <2>5. /\ Booked(log, now) /\ Follows(AliceFold, log, read[Alice].offers, n) /\ ~A!Raised
        BY <1>1 DEF DealInv, VenueInv, AliceInv
  <2>6. Folds(AliceFold, q, AliceFold')
        BY <2>3, <2>4, <2>5, FollowersHold, AliceFolds
  <2>7. /\ n \in 0 .. Len(L) /\ AliceFold.contract = c /\ AliceFold.status = "locked"
        /\ Chapter(AliceFold, log[OffersRoom], L, read[Alice].offers, n)
        BY <2>2, <2>5 DEF Follows, Prologue, AliceFold
  <2>8. /\ IsRoom(c, L) /\ L \in Seq(Line) /\ n \in Nat /\ n + 1 \in 1 .. Len(L)
        /\ q.frame = L[n + 1].frame /\ q.stamp = L[n + 1].stamp
    <3>1. IsRoom(c, L) /\ L \in Seq(Line)
          BY <2>2, <2>5 DEF Booked, IsRoom
    <3>2. Len(L) \in Nat
          BY <3>1
    <3>3. n \in Nat /\ n + 1 \in 1 .. Len(L)
          BY <2>4, <2>7, <3>2
    <3> QED BY <2>4, <3>1, <3>3 DEF Given
  <2>9. /\ AliceFold.accept \in Accepts /\ Plot(AliceFold, c, L, n)
        /\ AliceFold.seen = {A!Fingerprint(AliceFold.accept)} \cup Heard(L, n)
        BY <2>5, <2>7, FollowersHold DEF Chapter
  <2>10. PICK k \in 1 .. n : FirstEnd(c, L, k) /\ \A j \in k + 1 .. n : ~Pays(c, L, j)
         BY <2>7, <2>9 DEF Plot
  <2>11. New(L, n + 1)
    <3>1. \A i \in 1 .. Len(L) : L[i].frame.type = "refund" =>
              L[i].stamp >= Offer.refundAfterMs /\ LockedBy(c, L, i - 1) /\ AskedBy(L, i)
          BY <1>1, <2>2 DEF RefundInv, RefundsPosted
    <3>2. L[n + 1].frame.type = "refund"
          BY <2>4, <2>8
    <3> HIDE DEF c, L, n
    <3> QED BY <2>4, <2>8, <2>10, <3>1, <3>2, FirstRefundIsNew
  <2>12. Fresh(AliceFold, q.frame)
    <3>1. Fresh(AliceFold, L[n + 1].frame)
      <4>1. IsRoom(AliceFold.contract, L)
            BY <2>7, <2>8
      <4> HIDE DEF L, n
      <4> QED BY <2>4, <2>8, <2>9, <2>11, <4>1, FreshIsNew
    <3> QED BY <2>8, <3>1
  <2>13. Refunding(AliceFold, q.frame, A!WholeSecond(q.stamp))
    <3>1. L[n + 1].frame.contract = c /\ L[n + 1].stamp \in Nat
      <4> HIDE DEF c, L, n
      <4> QED BY <2>8, Lines
    <3>2. q.frame.contract = c /\ q.stamp \in Nat /\ q.stamp >= Offer.refundAfterMs
          BY <2>4, <2>8, <3>1
    <3>3. A!WholeSecond(q.stamp) >= Offer.refundAfterMs
          BY <3>2, SecondIsKept, DealOfferAssumption
    <3> QED BY <2>2, <2>4, <2>7, <3>2, <3>3 DEF Refunding, Live, A!Terminal
  <2>14. AliceFold'.status = "refunded"
         BY <2>4, <2>6, <2>12, <2>13
         DEF Folds, Refunding, Accepting, Locking, Revealing, Cancelling
  <2> QED BY <2>14 DEF AliceFold
<1>2. DealInv /\ RefundInv /\ [DealNext]_dealVars => [Counts]_dealVars
      BY <1>1
<1> HIDE DEF Counts
<1>3. DealSpec => [][Counts]_dealVars
      BY <1>2, RefundInvariance, PTL DEF DealSpec
<1> QED BY <1>3 DEF Counts, DueRefundCounts
=============================================================================
