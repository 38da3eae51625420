---------------------------- MODULE TclkContract ----------------------------
(***************************************************************************)
(* What a tclk/1 transcript is meant to establish (the state diagram in    *)
(* the comment above class Fold, src/technocore/tclk.py): one offer, at    *)
(* most one counterparty, a lock, and exactly one settlement on the right  *)
(* side of the refund deadline.  There are no frames, rooms, signatures or *)
(* fingerprints here; TclkFold is shown to implement this module.          *)
(*                                                                         *)
(* The diagram is amended in one place.  Its deadlines are to the          *)
(* millisecond; those of fold() pass with the first whole second that      *)
(* begins at or after them (Passed), so that a claim may come up to a      *)
(* second late, and a refund must wait as long.  Times are true times.     *)
(***************************************************************************)
EXTENDS Naturals

CONSTANTS Dids,          \* the agents that can sign
          Offers,        \* offers: from, role, expiresMs, refundAfterMs
          Statements,    \* lock statements
          Secrets,       \* secrets
          StatementOf,   \* the statement each secret opens
          Second,        \* time units in a second
          None

VARIABLES offer,         \* the offer, fixed
          status,        \* where the deal stands
          partner,       \* who accepted, None before
          statement,     \* what the payee must open, None before
          actor,         \* who made the last move
          at             \* the time of the last move

vars == <<offer, status, partner, statement, actor, at>>

Payer == IF offer.role = "payer" THEN offer.from ELSE partner
Payee == IF offer.role = "payee" THEN offer.from ELSE partner

Init ==
    /\ offer \in Offers
    /\ status = "proposed"
    /\ partner = None
    /\ statement = None
    /\ actor = offer.from
    /\ at = 0

\* A whole second has begun since the deadline, at the time of the move.
Passed(deadline) == \E n \in 0 .. at' : deadline <= n * Second /\ n * Second <= at'

\* Somebody other than the offerer accepts in time, and fixes the statement.
Accept ==
    /\ status = "proposed"
    /\ partner' \in Dids \ {offer.from}
    /\ statement' \in Statements
    /\ actor' = partner'
    /\ at' \in Nat /\ ~Passed(offer.expiresMs)
    /\ status' = "accepted"
    /\ UNCHANGED offer

\* A move of an accepted deal from one state to another, made by an agent.
Move(from, to, agent) ==
    /\ status = from
    /\ status' = to
    /\ actor' = agent
    /\ at' \in Nat
    /\ UNCHANGED <<offer, partner, statement>>

Lock == Move("accepted", "locked", Payer) /\ ~Passed(offer.refundAfterMs)

Claim ==
    /\ Move("locked", "claimed", Payee)
    /\ ~Passed(offer.refundAfterMs)
    /\ \E s \in Secrets : StatementOf[s] = statement

Refund == Move("locked", "refunded", Payer) /\ Passed(offer.refundAfterMs)

\* Either party cancels before there is a lock, the offerer also before there is
\* another party.
Cancel ==
    \E agent \in {Payer, Payee} \ {None}, from \in {"proposed", "accepted"} :
        Move(from, "cancelled", agent)

Next == Accept \/ Lock \/ Claim \/ Refund \/ Cancel

Spec == Init /\ [][Next]_vars
=============================================================================
