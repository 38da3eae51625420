-------------------------------- MODULE Room --------------------------------
(***************************************************************************)
(* A room of the service, as read(), Export and follow() of                *)
(* src/technocore/client.py describe it, and one reader's connection to    *)
(* it.  A room keeps a ring of its newest messages, numbered from 1 in     *)
(* each generation; old messages age out; a room can be reaped and made    *)
(* anew, with fresh numbers.  All of this goes on while a request is held  *)
(* and while its answer travels.                                           *)
(*                                                                         *)
(* A reader gets the newest `limit` messages above its cursor, and cannot  *)
(* page backwards.  Follow and ToolRead are the two readers of the code.   *)
(***************************************************************************)
EXTENDS Integers, Sequences

CONSTANTS Ring,          \* messages a room retains
          Limit,         \* the parameter limit
          MaxSeq,        \* bound: messages in a generation
          MaxGen,        \* bound: times the room is reaped
          MaxSince       \* bound: the parameter since

ASSUME RoomAssumption ==
    /\ Ring \in Nat \ {0} /\ Limit \in Nat \ {0}
    /\ MaxSeq \in Nat /\ MaxGen \in Nat /\ MaxSince \in Nat

VARIABLES gen,           \* the room's generation
          low, head,     \* it retains low .. head
          aged,          \* history: the newest message that aged out
          reader,        \* "follow" or "tool"
          pc,            \* where the reader is
          cursor,        \* the reader's cursor
          base,          \* the cursor of the request as the service clamped it
          page,          \* the answer: messages low .. high of a generation
          next,          \* the message of the page the reader looks at next
          start,         \* history: the cursor the reader began with
          out,           \* history: the messages delivered, <<generation, seq>>
          told,          \* history: the messages reported as missed
          recovered      \* history: the missed messages an export brought back

room == <<gen, low, head, aged>>
history == <<start, out, told, recovered>>
vars == <<room, reader, pc, cursor, base, page, next, history>>

Larger(a, b) == IF a > b THEN a ELSE b

Generations == 0 .. MaxGen
Numbers == 1 .. MaxSeq
Message == Generations \X Numbers

-----------------------------------------------------------------------------
(* The room. *)

\* Somebody posts; a full ring forgets its oldest message.
Post ==
    /\ head < MaxSeq
    /\ head' = head + 1
    /\ low' = Larger(low, head + 2 - Ring)
    /\ UNCHANGED <<gen, aged, reader, pc, cursor, base, page, next, history>>

\* The oldest message reaches the end of its retention.
Expire ==
    /\ low <= head
    /\ low' = low + 1 /\ aged' = low
    /\ UNCHANGED <<gen, head, reader, pc, cursor, base, page, next, history>>

\* The room is reaped; the next post makes it anew.
Reap ==
    /\ gen < MaxGen
    /\ gen' = gen + 1 /\ low' = 1 /\ head' = 0 /\ aged' = 0
    /\ UNCHANGED <<reader, pc, cursor, base, page, next, history>>

\* The newest `limit` messages above a sequence number: all that the room retains
\* once the number has aged out ("the whole window").
PageAbove(seq) ==
    [low |-> Larger(Larger(seq + 1, low), head - Limit + 1), high |-> head, gen |-> gen]

Empty == page.low > page.high

-----------------------------------------------------------------------------
(* read(). *)

\* A request with `since` reaches the service, which clamps it to the head.
Ask ==
    /\ pc = "poll"
    /\ base' = IF cursor > head THEN head ELSE cursor
    /\ pc' = "asked"
    /\ UNCHANGED <<room, reader, cursor, page, next, history>>

\* The service answers: at a new message, at the end of the wait, or at once.
Answer ==
    /\ pc = "asked"
    /\ page' = PageAbove(base)
    /\ pc' = "answered"
    /\ UNCHANGED <<room, reader, cursor, base, next, history>>

\* The room at any moment, and a reader that begins: with a cursor it kept,
\* which may be ahead of the room, or without one.
Init ==
    /\ gen = 0 /\ head \in 0 .. MaxSeq /\ aged = 0
    /\ low = Larger(1, head + 1 - Ring)
    /\ reader \in {"follow", "tool"}
    /\ \/ pc = "bootstrap" /\ cursor = 0
       \/ pc = "poll" /\ cursor \in 0 .. MaxSince
    /\ base = 0 /\ next = 1
    /\ page = [low |-> 1, high |-> 0, gen |-> 0]
    /\ start = cursor
    /\ out = <<>> /\ told = {} /\ recovered = {}
=============================================================================
