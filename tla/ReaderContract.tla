--------------------------- MODULE ReaderContract ---------------------------
(***************************************************************************)
(* What a reader of a room promises (docstring of Client.follow and the    *)
(* comments in its loop, src/technocore/client.py: a page that starts      *)
(* above the cursor is reported as missed, and to yield a message again is *)
(* the "duplicate flood" the cursor is advanced against): messages come    *)
(* once and in the order they were posted in, and what is reported as      *)
(* skipped lies ahead of everything reported or delivered before, and is   *)
(* never delivered.  The description of technocore_read_room promises an   *)
(* agent less: it is to expect messages again when its cursor aged out.    *)
(* There are no cursors, pages or requests here.                           *)
(***************************************************************************)
EXTENDS Naturals, Sequences

CONSTANTS Generations, Numbers   \* a message is <<generation, number>>

VARIABLES out,           \* the messages delivered
          told           \* the messages reported as skipped

vars == <<out, told>>

Before(m, n) == m[1] < n[1] \/ (m[1] = n[1] /\ m[2] < n[2])

Reported == {out[i] : i \in 1 .. Len(out)} \cup told

Init == out = <<>> /\ told = {}

Deliver(m) ==
    /\ \A n \in Reported : Before(n, m)
    /\ out' = Append(out, m)
    /\ UNCHANGED told

\* The messages between two numbers of a generation are skipped.
Skip(g, first, last) ==
    /\ \A n \in Reported : Before(n, <<g, first>>)
    /\ told' = told \cup ({g} \X (first .. last))
    /\ UNCHANGED out

Next ==
    \/ \E m \in Generations \X Numbers : Deliver(m)
    \/ \E g \in Generations, first, last \in Numbers : Skip(g, first, last)

Spec == Init /\ [][Next]_vars
=============================================================================
