------------------------------- MODULE Follow -------------------------------
(***************************************************************************)
(* Client.follow (src/technocore/client.py): a generator that long-polls a *)
(* room, keeps a cursor, yields what is newer, and reports the messages it *)
(* could not reach to on_gap.  The handler here does what the docstrings   *)
(* recommend: it exports the room and takes what is still there.           *)
(*                                                                         *)
(* Sleeps are steps without a length.                                      *)
(***************************************************************************)
EXTENDS Room

\* follow() without since: a plain read establishes the cursor.
Bootstrap ==
    /\ pc = "bootstrap"
    /\ cursor' = head /\ start' = head
    /\ pc' = "poll"
    /\ UNCHANGED <<room, reader, base, page, next, out, told, recovered>>

\* Mutation: the clamped cursor is not adopted.
MutAdopted == cursor

\* A cursor past the room's newest message is given up for the head the
\* service names, or for the place just below the page it delivered.
Adopted ==
    IF page.high < cursor
    THEN IF Empty THEN page.high ELSE page.low - 1
    ELSE cursor

\* Mutation: the gap begins at the cursor.
MutMissedFromCursor == IF Empty THEN {} ELSE Adopted .. (page.low - 1)

\* The messages between the cursor and the page.
Missed == IF Empty THEN {} ELSE (Adopted + 1) .. (page.low - 1)

\* The cursor is corrected, and a gap is passed to on_gap.
Correct ==
    /\ pc = "answered"
    /\ cursor' = Adopted
    /\ told' = told \cup ({page.gen} \X Missed)
    /\ next' = page.low
    /\ pc' = IF Missed = {} THEN "yield" ELSE "gap"
    /\ UNCHANGED <<room, reader, base, page, start, out, recovered>>

\* Export.since: the retained records after a cursor.
Since(seq) == {s \in low .. head : s > seq}

\* on_gap exports the room and keeps what the page does not hold.
Recover ==
    /\ pc = "gap"
    /\ recovered' = recovered \cup ({gen} \X {s \in Since(cursor) : s < page.low})
    /\ pc' = "yield"
    /\ UNCHANGED <<room, reader, cursor, base, page, next, start, out, told>>

\* One message of the page: yielded when it is above the cursor.
Yield ==
    /\ pc = "yield" /\ next <= page.high
    /\ out' = IF next > cursor THEN Append(out, <<page.gen, next>>) ELSE out
    /\ next' = next + 1
    /\ UNCHANGED <<room, reader, pc, cursor, base, page, start, told, recovered>>

\* Mutation: the cursor stays where it was.
MutAdvanced == cursor

\* Past everything yielded, and never backwards.
Advanced == Larger(cursor, page.high)

\* The end of the page: poll again, or sleep first when nothing was yielded.
Advance ==
    /\ pc = "yield" /\ next > page.high
    /\ cursor' = Advanced
    /\ pc' = IF Empty \/ page.high <= cursor THEN "sleep" ELSE "poll"
    /\ UNCHANGED <<room, reader, base, page, next, history>>

\* time.sleep before the next poll.
Sleep ==
    /\ pc = "sleep"
    /\ pc' = "poll"
    /\ UNCHANGED <<room, reader, cursor, base, page, next, history>>

\* read(), or the handler's export, raises: the generator is over.
Fail ==
    /\ pc \in {"bootstrap", "poll", "asked", "gap"}
    /\ pc' = "ended"
    /\ UNCHANGED <<room, reader, cursor, base, page, next, history>>

Follower == Bootstrap \/ Correct \/ Recover \/ Yield \/ Advance \/ Sleep
=============================================================================
