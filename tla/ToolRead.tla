------------------------------ MODULE ToolRead ------------------------------
(***************************************************************************)
(* technocore_read_room (read_room in                                      *)
(* src/technocore/integrations/tools.py), called again and again by an     *)
(* agent that does as its description says: it passes the next_since of    *)
(* the last page, and takes a window that starts above it for a gap.       *)
(* What fits of a page depends on the lengths of its messages: any number  *)
(* from one on.                                                            *)
(***************************************************************************)
EXTENDS Room

\* The first call has no since: the newest messages, and nothing is missed.
FirstPage ==
    /\ pc = "bootstrap"
    /\ page' = PageAbove(0)
    /\ IF low > head
       THEN UNCHANGED <<pc, cursor, start>>
       ELSE /\ pc' = "answered"
            /\ cursor' = page'.low - 1 /\ start' = cursor'
    /\ UNCHANGED <<room, reader, base, next, out, told, recovered>>

\* "Room has no messages after sequence ...": no new cursor.
ShowNothing ==
    /\ pc = "answered" /\ Empty
    /\ pc' = "poll"
    /\ UNCHANGED <<room, reader, cursor, base, page, next, history>>

\* The header's window begins at the page; the agent compares it with since.
Window ==
    /\ pc = "answered" /\ ~Empty
    /\ told' = told \cup ({page.gen} \X ((cursor + 1) .. (page.low - 1)))
    /\ next' = page.low
    /\ pc' = "keep"
    /\ UNCHANGED <<room, reader, cursor, base, page, start, out, recovered>>

\* The oldest message of the page that was not looked at fits.
Keep ==
    /\ pc = "keep" /\ next <= page.high
    /\ out' = Append(out, <<page.gen, next>>)
    /\ next' = next + 1
    /\ UNCHANGED <<room, reader, pc, cursor, base, page, start, told, recovered>>

\* Mutation: next_since is the newest message of the whole page.
MutNextSince == page.high

\* next_since covers what is shown.
NextSince == next - 1

\* The page is at its end, or the next message does not fit; one always does.
Show ==
    /\ pc = "keep" /\ next > page.low
    /\ cursor' = NextSince
    /\ pc' = "poll"
    /\ UNCHANGED <<room, reader, base, page, next, history>>

\* An error comes back as text, and the agent may call again.
ToolFail ==
    /\ pc = "asked"
    /\ pc' = "poll"
    /\ UNCHANGED <<room, reader, cursor, base, page, next, history>>

Tool == FirstPage \/ ShowNothing \/ Window \/ Keep \/ Show
=============================================================================
