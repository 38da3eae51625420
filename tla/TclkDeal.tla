------------------------------ MODULE TclkDeal ------------------------------
(***************************************************************************)
(* A tclk/1 deal between two agents (src/technocore/tclk.py): Alice offers *)
(* to pay, Bob accepts, and each of them reads the offers room and then    *)
(* the room of the accepted contract into a fold of its own, TclkFold, and *)
(* posts what the builders build when its own fold and its clock allow.    *)
(* Carol accepts too; anyone replays what the rooms hold.                  *)
(*                                                                         *)
(* A post is under way for at most MaxDelay, or is lost; the service       *)
(* stamps it when it arrives, and everybody has the service's clock.       *)
(***************************************************************************)
EXTENDS TclkTerms, Sequences

CONSTANTS
    Alice, Bob, Carol,
    Offer,               \* the offer Alice posted: she is the payer
    Secret, Statement,   \* what Bob minted; Carol's statement
    OtherStatement,
    Rail, LockRef,       \* the rail Alice locks on and its reference
    Nonce,               \* the nonce of an accept
    MaxDelay,            \* a post arrives within this time
    MaxNow,              \* bound: the clock
    MaxTrouble           \* bound: losses, replays, cancels and other acceptances

ASSUME PartiesAssumption == Alice # Bob /\ Alice # Carol /\ Bob # Carol

ASSUME DealOfferAssumption ==
    /\ Offer.from = Alice /\ Offer.role = "payer" /\ Offer.lock = "hash"
    /\ Rail \in Offer.rails
    /\ Offer.expiresMs \in Nat /\ Offer.claimByMs \in Nat /\ Offer.refundAfterMs \in Nat

ASSUME ClockAssumption == MaxDelay \in Nat /\ MaxNow \in Nat /\ MaxTrouble \in Nat

VARIABLES
    now,                 \* the service's clock
    log,                 \* the records of each room, in order
    flight,              \* posts under way: frame and time
    said,                \* what an agent posted, and has no error for
    trouble,             \* how many of these there were
    read,                \* records of the two rooms each agent has folded
    aStatus, aContract, aAccept, aLock, aSecret, aSeen, aLast, aMoved,
    bStatus, bContract, bAccept, bLock, bSecret, bSeen, bLast, bMoved

venue == <<now, log, flight, said, trouble>>
alice == <<aStatus, aContract, aAccept, aLock, aSecret, aSeen, aLast, aMoved>>
bob == <<bStatus, bContract, bAccept, bLock, bSecret, bSeen, bLast, bMoved>>
dealVars == <<venue, read, alice, bob>>

A == INSTANCE TclkFold WITH
    Dids <- {Alice, Bob, Carol}, Offers <- {Offer}, Records <- {},
    HashStatements <- {Statement, OtherStatement}, PointStatements <- {},
    Secrets <- {Secret}, StatementOf <- [s \in {Secret} |-> Statement],
    Refs <- {Offer.id, LockRef}, Unhashable <- {}, Falsy <- {},
    offer <- Offer, status <- aStatus, contract <- aContract, accept <- aAccept,
    lock <- aLock, secret <- aSecret, seen <- aSeen, last <- aLast, moved <- aMoved

B == INSTANCE TclkFold WITH
    Dids <- {Alice, Bob, Carol}, Offers <- {Offer}, Records <- {},
    HashStatements <- {Statement, OtherStatement}, PointStatements <- {},
    Secrets <- {Secret}, StatementOf <- [s \in {Secret} |-> Statement],
    Refs <- {Offer.id, LockRef}, Unhashable <- {}, Falsy <- {},
    offer <- Offer, status <- bStatus, contract <- bContract, accept <- bAccept,
    lock <- bLock, secret <- bSecret, seen <- bSeen, last <- bLast, moved <- bMoved

-----------------------------------------------------------------------------
(* The builders. *)

\* build_accept derives the contract from the core of the acceptance.
BuildAccept(did, statement) ==
    LET core == [type |-> "accept", from |-> did, contract |-> None, ref |-> Offer.id,
                 nonce |-> Nonce, secret |-> None, statement |-> statement, rail |-> None]
    IN  [core EXCEPT !.contract = A!ContractId(Offer, core)]

BuildLock(did, contract) ==
    [type |-> "lock", from |-> did, contract |-> contract, ref |-> LockRef,
     nonce |-> None, secret |-> None, statement |-> None, rail |-> Rail]

\* Mutation: a fresh nonce, as in an accept.
MutBuildReveal(did, contract) ==
    [type |-> "reveal", from |-> did, contract |-> contract, ref |-> None,
     nonce |-> Nonce, secret |-> Secret, statement |-> None, rail |-> None]

BuildReveal(did, contract) ==
    [type |-> "reveal", from |-> did, contract |-> contract, ref |-> None,
     nonce |-> None, secret |-> Secret, statement |-> None, rail |-> None]

\* The frames that hold nothing but their contract.
Bare(type, did, contract) ==
    [type |-> type, from |-> did, contract |-> contract, ref |-> None,
     nonce |-> None, secret |-> None, statement |-> None, rail |-> None]

BuildRefund(did, contract) == Bare("refund", did, contract)

BuildCancel(did, contract) == Bare("cancel", did, contract)

BobsAccept == BuildAccept(Bob, Statement)
CarolsAccept == BuildAccept(Carol, OtherStatement)

Accepts == {BobsAccept, CarolsAccept}
Contracts == {f.contract : f \in Accepts}

Frames ==
    Accepts \cup UNION {{BuildLock(Alice, c), BuildReveal(Bob, c), BuildRefund(Alice, c),
                         BuildCancel(Alice, c), BuildCancel(Bob, c)} : c \in Contracts}

ASSUME DealNoneAssumption ==
    None \notin Nat \cup {Alice, Bob, Carol, Offer.id, Secret, Statement, OtherStatement,
                          Rail, LockRef, Nonce} \cup Contracts \cup Frames

ASSUME RoomAssumption == OffersRoom \notin {A!DealRoom(c) : c \in Contracts}

-----------------------------------------------------------------------------
(* The venue. *)

\* An acceptance belongs in the offers room, everything later in the deal room.
RoomOf(f) == IF f.type = "accept" THEN OffersRoom ELSE A!DealRoom(f.contract)

\* An agent posts a frame, once unless its post raises.
Post(f) ==
    /\ f \notin said
    /\ flight' = flight \cup {[frame |-> f, sent |-> now]}
    /\ said' = said \cup {f}
    /\ UNCHANGED <<now, log, read, alice, bob>>

Send(f) == Post(f) /\ UNCHANGED trouble

\* A post the deal could do without counts against the bound.
SendMore(f) == trouble < MaxTrouble /\ trouble' = trouble + 1 /\ Post(f)

Stored(f) == [log EXCEPT ![RoomOf(f)] = Append(@, [frame |-> f, stamp |-> now])]

Arrive(m) ==
    /\ log' = Stored(m.frame)
    /\ flight' = flight \ {m}
    /\ UNCHANGED <<now, said, trouble, read, alice, bob>>

\* TransportError: the post was lost, or its answer was, and the agent may post
\* the frame again.
Lose(m) ==
    /\ trouble < MaxTrouble /\ trouble' = trouble + 1
    /\ log' \in {log, Stored(m.frame)}
    /\ flight' = flight \ {m} /\ said' = said \ {m.frame}
    /\ UNCHANGED <<now, read, alice, bob>>

\* "the same signed URL becomes replayable once enough newer traffic buries
\* its nonce": the same frame in the same room, with a new stamp.
Replay(r) ==
    /\ trouble < MaxTrouble /\ trouble' = trouble + 1
    /\ log' = Stored(r.frame)
    /\ UNCHANGED <<now, flight, said, read, alice, bob>>

\* Time passes, though no post is under way for longer than MaxDelay.
Tick ==
    /\ now < MaxNow
    /\ \A m \in flight : now < m.sent + MaxDelay
    /\ now' = now + 1
    /\ UNCHANGED <<log, flight, said, trouble, read, alice, bob>>

Posted == UNION {{log[room][i] : i \in 1 .. Len(log[room])} : room \in DOMAIN log}

Venue ==
    \/ \E m \in flight : Arrive(m) \/ Lose(m)
    \/ \E r \in Posted : Replay(r)
    \/ Tick

-----------------------------------------------------------------------------
(* The agents. *)

\* Mutation: a record is folded at the reader's clock.
MutGiven(r) ==
    [frame |-> r.frame, did |-> r.frame.from, signed |-> TRUE, room |-> None, stamp |-> now]

\* A line of an export: signed, with the stamp of the service, and no room.
Given(r) ==
    [frame |-> r.frame, did |-> r.frame.from, signed |-> TRUE, room |-> None, stamp |-> r.stamp]

\* The next record of the offers room, and of the deal's room once there is one.
Unread(agent, contract) ==
    LET room  == IF contract = None THEN OffersRoom ELSE A!DealRoom(contract)
        count == read[agent][IF contract = None THEN "offers" ELSE "deal"]
    IN  IF count < Len(log[room]) THEN {Given(log[room][count + 1])} ELSE {}

Counted(agent, contract) ==
    [read EXCEPT ![agent][IF contract = None THEN "offers" ELSE "deal"] = @ + 1]

AliceReads ==
    \E r \in Unread(Alice, aContract) :
        /\ A!FoldRecord(r)
        /\ read' = Counted(Alice, aContract)
        /\ UNCHANGED <<venue, bob>>

BobReads ==
    \E r \in Unread(Bob, bContract) :
        /\ B!FoldRecord(r)
        /\ read' = Counted(Bob, bContract)
        /\ UNCHANGED <<venue, alice>>

BobAccepts == bStatus = "proposed" /\ now < Offer.expiresMs /\ Send(BobsAccept)

CarolAccepts == now < Offer.expiresMs /\ SendMore(CarolsAccept)

\* The payer locks while the payee has the time to claim.
AliceLocks ==
    /\ aStatus = "accepted" /\ now < Offer.claimByMs
    /\ BuildCancel(Alice, aContract) \notin said
    /\ Send(BuildLock(Alice, aContract))

\* Mutation: the payee takes the refund deadline for the end of its window.
MutClaimBy == Offer.refundAfterMs

\* "the gap is the payee's safe claim window": from claimByMs on, a secret on
\* its way may arrive after the refund deadline.
ClaimBy == Offer.claimByMs

BobReveals ==
    /\ bStatus = "locked" /\ B!Payee = Bob /\ now < ClaimBy
    /\ Send(BuildReveal(Bob, bContract))

\* Mutation: the payer posts its refund as soon as there is a lock.
MutRefundDue == TRUE

\* "now >= refundAfterMs", as the state diagram has it.
RefundDue == now >= Offer.refundAfterMs

AliceRefunds ==
    /\ aStatus = "locked" /\ RefundDue
    /\ Send(BuildRefund(Alice, aContract))

\* Either party may cancel an accepted deal; the payer not once it has locked.
AliceCancels ==
    /\ aStatus = "accepted"
    /\ BuildLock(Alice, aContract) \notin said
    /\ SendMore(BuildCancel(Alice, aContract))

BobCancels ==
    /\ bStatus = "accepted" /\ B!Payee = Bob
    /\ SendMore(BuildCancel(Bob, bContract))

Agents ==
    \/ AliceReads \/ AliceLocks \/ AliceRefunds \/ AliceCancels
    \/ BobReads \/ BobAccepts \/ BobReveals \/ BobCancels
    \/ CarolAccepts

DealInit ==
    /\ now = 0
    /\ log = [room \in {OffersRoom} \cup {A!DealRoom(c) : c \in Contracts} |-> <<>>]
    /\ flight = {} /\ said = {} /\ trouble = 0
    /\ read = [agent \in {Alice, Bob} |-> [offers |-> 0, deal |-> 0]]
    /\ A!Init /\ B!Init

DealNext == Venue \/ Agents

DealSpec == DealInit /\ [][DealNext]_dealVars

\* Time passes, what is not lost arrives, both agents keep reading, and a payer
\* that waits for its money does not tire of asking.  The bounds leave finitely
\* many of these steps, so fairness to all of them together is fairness to each.
Ongoing ==
    \/ Tick \/ \E m \in flight : Arrive(m)
    \/ AliceReads \/ BobReads \/ AliceRefunds

FairSpec == DealSpec /\ WF_dealVars(Ongoing)

-----------------------------------------------------------------------------
(* Properties. *)

DealTypeOK ==
    /\ now \in 0 .. MaxNow /\ trouble \in 0 .. MaxTrouble
    /\ said \subseteq Frames
    /\ \A m \in flight : m.frame \in Frames /\ m.sent \in 0 .. now
    /\ \A r \in Posted : r.frame \in Frames /\ A!ValidFrame(r.frame) /\ r.stamp \in 0 .. now
    /\ A!TypeOK /\ B!TypeOK

\* "two implementations fold the same transcript into different states, each
\* certain it is right": two agents that read a growing venue at their own pace
\* never hold different contracts or different ends of a deal, and hold the
\* same state whenever they have read as much.
OneStory ==
    /\ aContract # None /\ bContract # None => aContract = bContract
    /\ aStatus \in A!Terminal /\ bStatus \in A!Terminal =>
           aStatus = bStatus /\ aSecret = bSecret
    /\ read[Alice] = read[Bob] => aStatus = bStatus /\ aContract = bContract

\* A claim window is safe for a payee that uses it up to its end if it is as long
\* as a post may take.
WindowIsSafe == Offer.claimByMs + MaxDelay <= Offer.refundAfterMs

\* The safe claim window: when a secret is out and its post was not lost, the
\* payee is paid, and nobody ever sees the deal refunded.
RevealIsPaid ==
    (\E r \in Posted : r.frame.type = "reveal") =>
        aStatus # "refunded" /\ bStatus # "refunded"

\* A lock that the payer has seen never stays: in the end both agents see it
\* claimed or refunded, whatever was lost, replayed or too late.
LockedIsSettled ==
    aStatus = "locked" ~> aStatus = bStatus /\ aStatus \in {"claimed", "refunded"}

\* tclk.py:500 "refund(payer, now >= refundAfterMs)": a refund of a locked deal,
\* stamped at or after the deadline of its offer, counts.
DueRefundCounts ==
    [][\A r \in Unread(Alice, aContract) :
          /\ aStatus = "locked" /\ read'[Alice] # read[Alice]
          /\ r.frame.type = "refund" /\ r.stamp >= Offer.refundAfterMs
          => aStatus' = "refunded"]_dealVars
=============================================================================
