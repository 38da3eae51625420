----------------------------- MODULE AtomicNote -----------------------------
(***************************************************************************)
(* What Client.update_note promises its caller about a note others write   *)
(* too: the change is applied at once to whatever the note holds, at most  *)
(* once, and the way the call ends says whether it was.  NoteUpdate is     *)
(* shown to implement this module.                                         *)
(***************************************************************************)
CONSTANTS Calls,         \* calls of update_note
          Values,        \* what a note can hold
          Mutate,        \* Mutate[c][v]: the caller's function, Refused if it raises
          Refused, None

VARIABLES value,         \* the note, None when it does not exist
          applied,       \* the calls whose change was applied
          outcome        \* how each call ended, "running" before

vars == <<value, applied, outcome>>

Init ==
    /\ value \in Values \cup {None}
    /\ applied = {}
    /\ outcome = [c \in Calls |-> "running"]

\* The change is made to the current value, in one step.  A call that could
\* not tell its caller may still be applied, one that failed is not.
Apply(c) ==
    /\ c \notin applied
    /\ outcome[c] \in {"running", "unknown"}
    /\ Mutate[c][value] # Refused
    /\ value' = Mutate[c][value]
    /\ applied' = applied \cup {c}
    /\ UNCHANGED outcome

Finish(c, how) ==
    /\ outcome[c] = "running"
    /\ \/ how = "ok" /\ c \in applied
       \/ how \in {"conflict", "failed"} /\ c \notin applied
       \/ how = "unknown"
    /\ outcome' = [outcome EXCEPT ![c] = how]
    /\ UNCHANGED <<value, applied>>

\* Somebody writes without a condition, or the service reclaims an idle note.
Interfere ==
    /\ value' \in Values \cup {None}
    /\ UNCHANGED <<applied, outcome>>

Next ==
    \/ \E c \in Calls : Apply(c)
    \/ \E c \in Calls, how \in {"ok", "conflict", "failed", "unknown"} : Finish(c, how)
    \/ Interfere

Spec == Init /\ [][Next]_vars
=============================================================================
