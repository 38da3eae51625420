---------------------------- MODULE MCNoteUpdate ----------------------------
(* A note is a list of names, each call adds its own.  c1 creates a missing   *)
(* note; c2 does not, and its mutate raises on a note it has already signed.  *)
EXTENDS NoteUpdate, Sequences

CONSTANTS c1, c2

MCValues == {<<>>, <<c1>>, <<c2>>, <<c1, c2>>, <<c2, c1>>}
Has(v, c) == \E i \in DOMAIN v : v[i] = c
MCMutate ==
    [c \in Calls |-> [v \in Values \cup {None} |->
        IF v = None THEN <<c>>
        ELSE IF Has(v, c) THEN IF c = c1 THEN v ELSE Refused
        ELSE Append(v, c)]]
=============================================================================
