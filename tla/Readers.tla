------------------------------- MODULE Readers ------------------------------
(***************************************************************************)
(* A room with one of its two readers: a follower or an agent with the     *)
(* read_room tool.  Both are shown to implement ReaderContract.            *)
(***************************************************************************)
EXTENDS Follow, ToolRead

RoomStep == Post \/ Expire \/ Reap

ReaderStep ==
    \/ reader = "follow" /\ (Follower \/ Fail)
    \/ reader = "tool" /\ (Tool \/ ToolFail)

Next == RoomStep \/ Ask \/ Answer \/ ReaderStep

Spec == Init /\ [][Next]_vars

\* The consumer keeps pulling or calling, and a service that is asked again and
\* again answers at last (a wait ends after MAX_WAIT_SECONDS).
FairSpec ==
    /\ Spec
    /\ WF_vars(Ask)
    /\ WF_vars(reader = "follow" /\ Follower)
    /\ WF_vars(reader = "tool" /\ Tool)
    /\ SF_vars(Answer)

-----------------------------------------------------------------------------
(* Properties. *)

TypeOK ==
    /\ gen \in Nat /\ head \in Nat /\ low \in 1 .. head + 1 /\ aged \in 0 .. low - 1
    /\ reader \in {"follow", "tool"}
    /\ pc \in {"bootstrap", "poll", "asked", "answered", "gap", "yield", "keep", "sleep", "ended"}
    /\ cursor \in Nat /\ base \in Nat /\ next \in Nat \ {0} /\ start \in Nat
    /\ page \in [low : Nat \ {0}, high : Nat, gen : Nat]
    /\ out \in Seq(Message)
    /\ told \subseteq Message /\ recovered \subseteq Message

\* Through clamped cursors, pages that do not fit and recreated rooms, a reader
\* delivers in order and once, and never delivers what it reported as skipped.
Contract == INSTANCE ReaderContract
ReaderSpec == Contract!Spec

Delivered == {out[i] : i \in 1 .. Len(out)}

\* While the room is not recreated, every message behind the cursor was
\* delivered, or reported as skipped and then exported unless the ring had
\* already forgotten it; only what ages out can be passed in silence.
Accounted ==
    gen = 0 =>
        \A s \in (start + 1) .. cursor :
            \/ <<0, s>> \in Delivered
            \/ <<0, s>> \in told /\ (reader = "follow" => <<0, s>> \in recovered \/ s < low)
            \/ s <= aged

\* Once the room is quiet, a follower that is not stopped reaches its head, even
\* from the cursor of a dead generation ("polled for nothing until the caller
\* gave up"); the tool, whose pages may be short, leaves nothing behind.
CatchesUp ==
    <>[](CASE reader = "follow" -> cursor = head \/ pc = "ended"
           [] reader = "tool" -> pc = "bootstrap" \/ cursor >= head \/ low > head)
=============================================================================
