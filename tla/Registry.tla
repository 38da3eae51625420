------------------------------ MODULE Registry ------------------------------
(***************************************************************************)
(* The identity registry (src/technocore/client.py): the note about a DID  *)
(* lies at one of two places anyone can work out and anyone can write to.  *)
(* publish_identity writes one of them and reads it back, as the tool      *)
(* write_note and `technocore note` do with any note; resolve_identity     *)
(* looks at both, the sharded one first.                                   *)
(*                                                                         *)
(* A note is what sweep and neutralise leave of it; About is its first     *)
(* field.  A write whose answer was lost may still be executed later.      *)
(***************************************************************************)
EXTENDS Naturals

CONSTANTS
    Publishers, Resolvers,   \* calls, of any processes
    Values,                  \* texts of notes
    Did, About,              \* the DID in question; the first field of a text
    Call,                    \* of a publisher: place, value and condition
    MaxStrangers,            \* bound: writes and reclaimings by others
    None

Places == {"sharded", "legacy"}

\* set_note's conditions: none, if_absent, or if_value with a text.
CallType == [at : Places, value : Values, condition : {"none", "absent"} \cup Values]

ASSUME CallAssumption == Call \in [Publishers -> CallType]

ASSUME ValueAssumption ==
    /\ None \notin Values /\ "none" \notin Values /\ "absent" \notin Values
    /\ MaxStrangers \in Nat

VARIABLES
    notes,               \* the note at each place, or None
    pc,                  \* where each publisher is
    request,             \* what became of its write at the service
    outcome,             \* what its call reported
    place,               \* where each resolver looks next, "start" or "done"
    found,               \* what its call returned, None, or "raised"
    strangers,           \* writes of others so far
    touched,             \* history: publishers whose note was changed since
    stable               \* history: what stood at each place since a resolver
                         \* began, None where something changed

publisher == <<pc, request, outcome>>
resolver == <<place, found>>
vars == <<notes, publisher, resolver, strangers, touched, stable>>

Init ==
    /\ notes \in [Places -> Values \cup {None}]
    /\ pc = [p \in Publishers |-> "write"]
    /\ request = [p \in Publishers |-> "none"]
    /\ outcome = [p \in Publishers |-> "none"]
    /\ place = [r \in Resolvers |-> "start"]
    /\ found = [r \in Resolvers |-> None]
    /\ strangers = 0
    /\ touched = {}
    /\ stable = [r \in Resolvers |-> [l \in Places |-> None]]

-----------------------------------------------------------------------------
(* The service. *)

\* A place gets another text, or loses its note.
Change(l, text) ==
    /\ notes' = [notes EXCEPT ![l] = text]
    /\ touched' = touched \cup {p \in Publishers : request[p] = "written" /\ Call[p].at = l}
    /\ stable' = [r \in Resolvers |-> [stable[r] EXCEPT ![l] = None]]

\* The condition of a write holds.
Fits(p) ==
    CASE Call[p].condition = "none" -> TRUE
      [] Call[p].condition = "absent" -> notes[Call[p].at] = None
      [] OTHER -> notes[Call[p].at] = Call[p].condition

\* The write is executed, at once or after its caller gave up.
Execute(p) ==
    /\ request[p] = "sent" /\ Fits(p)
    /\ Change(Call[p].at, Call[p].value)
    /\ request' = [request EXCEPT ![p] = "written"]
    /\ UNCHANGED <<pc, outcome, resolver, strangers>>

\* 409
Conflict(p) ==
    /\ request[p] = "sent" /\ ~Fits(p)
    /\ request' = [request EXCEPT ![p] = "conflict"]
    /\ UNCHANGED <<notes, pc, outcome, resolver, strangers, touched, stable>>

\* A full namespace, a rate limit or a 5xx.
Decline(p) ==
    /\ request[p] = "sent"
    /\ request' = [request EXCEPT ![p] = "declined"]
    /\ UNCHANGED <<notes, pc, outcome, resolver, strangers, touched, stable>>

\* Anybody writes, or an idle note is reclaimed.
Stranger ==
    /\ strangers < MaxStrangers /\ strangers' = strangers + 1
    /\ \E l \in Places, text \in Values \cup {None} : Change(l, text)
    /\ UNCHANGED <<publisher, resolver>>

-----------------------------------------------------------------------------
(* publish_identity, write_note, cmd_note. *)

Finish(p, result) ==
    /\ outcome' = [outcome EXCEPT ![p] = result]
    /\ pc' = [pc EXCEPT ![p] = "done"]

Write(p) ==
    /\ pc[p] = "write"
    /\ request' = [request EXCEPT ![p] = "sent"]
    /\ pc' = [pc EXCEPT ![p] = "wait"]
    /\ UNCHANGED <<notes, outcome, resolver, strangers, touched, stable>>

\* set_note raises what the service answered.
Refused(p) ==
    /\ pc[p] = "wait" /\ request[p] \in {"conflict", "declined"}
    /\ Finish(p, IF request[p] = "conflict" THEN "refused" ELSE "declined")
    /\ UNCHANGED <<notes, request, resolver, strangers, touched, stable>>

\* Mutation: no answer is taken for a refusal.
MutGiveUp(p) ==
    /\ pc[p] = "wait"
    /\ Finish(p, "declined")
    /\ UNCHANGED <<notes, request, resolver, strangers, touched, stable>>

\* TransportError: no answer came, or an unreadable one.
GiveUp(p) ==
    /\ pc[p] = "wait"
    /\ Finish(p, "raised")
    /\ UNCHANGED <<notes, request, resolver, strangers, touched, stable>>

Written(p) ==
    /\ pc[p] = "wait" /\ request[p] = "written"
    /\ pc' = [pc EXCEPT ![p] = "read"]
    /\ UNCHANGED <<notes, request, outcome, resolver, strangers, touched, stable>>

\* The read-back, compared exactly.
ReadBack(p) ==
    /\ pc[p] = "read" /\ notes[Call[p].at] # None
    /\ Finish(p, IF notes[Call[p].at] = Call[p].value THEN "confirmed" ELSE "mismatch")
    /\ UNCHANGED <<notes, request, resolver, strangers, touched, stable>>

\* The read-back raises: a 404, since the note is gone, or any failure.
ReadBackFails(p) ==
    /\ pc[p] = "read"
    /\ Finish(p, "raised")
    /\ UNCHANGED <<notes, request, resolver, strangers, touched, stable>>

Publisher(p) ==
    Write(p) \/ Refused(p) \/ GiveUp(p) \/ Written(p) \/ ReadBack(p) \/ ReadBackFails(p)

Service(p) == Execute(p) \/ Conflict(p) \/ Decline(p)

-----------------------------------------------------------------------------
(* resolve_identity. *)

Begin(r) ==
    /\ place[r] = "start"
    /\ place' = [place EXCEPT ![r] = "sharded"]
    /\ stable' = [stable EXCEPT ![r] = notes]
    /\ UNCHANGED <<notes, publisher, found, strangers, touched>>

\* The first field is the DID asked for.
IsAbout(text) == text # None /\ About[text] = Did

\* Mutation: what is returned is the place.
MutFind(r) ==
    /\ place[r] \in Places /\ IsAbout(notes[place[r]])
    /\ found' = [found EXCEPT ![r] = place[r]]
    /\ place' = [place EXCEPT ![r] = "done"]
    /\ UNCHANGED <<notes, publisher, strangers, touched, stable>>

Find(r) ==
    /\ place[r] \in Places /\ IsAbout(notes[place[r]])
    /\ found' = [found EXCEPT ![r] = notes[place[r]]]
    /\ place' = [place EXCEPT ![r] = "done"]
    /\ UNCHANGED <<notes, publisher, strangers, touched, stable>>

\* Mutation: a note about somebody else ends the search.
MutNextPlace(r) == IF notes[place[r]] = None /\ place[r] = "sharded" THEN "legacy" ELSE "done"

\* The sharded place comes first; after the legacy one there is no note.
NextPlace(r) == IF place[r] = "sharded" THEN "legacy" ELSE "done"

\* A 404, an empty text, or somebody else's note: keep looking.
LookOn(r) ==
    /\ place[r] \in Places /\ ~IsAbout(notes[place[r]])
    /\ place' = [place EXCEPT ![r] = NextPlace(r)]
    /\ UNCHANGED <<notes, publisher, found, strangers, touched, stable>>

\* Anything but a 404 is raised.
Fail(r) ==
    /\ place[r] \in Places
    /\ found' = [found EXCEPT ![r] = "raised"]
    /\ place' = [place EXCEPT ![r] = "done"]
    /\ UNCHANGED <<notes, publisher, strangers, touched, stable>>

Resolver(r) == Begin(r) \/ Find(r) \/ LookOn(r) \/ Fail(r)

Next ==
    \/ \E p \in Publishers : Publisher(p) \/ Service(p)
    \/ \E r \in Resolvers : Resolver(r)
    \/ Stranger

Spec == Init /\ [][Next]_vars

-----------------------------------------------------------------------------
(* Properties. *)

TypeOK ==
    /\ notes \in [Places -> Values \cup {None}]
    /\ pc \in [Publishers -> {"write", "wait", "read", "done"}]
    /\ request \in [Publishers -> {"none", "sent", "written", "conflict", "declined"}]
    /\ outcome \in [Publishers ->
                       {"none", "confirmed", "mismatch", "refused", "declined", "raised"}]
    /\ place \in [Resolvers -> Places \cup {"start", "done"}]
    /\ found \in [Resolvers -> Values \cup {None, "raised"}]
    /\ strangers \in 0 .. MaxStrangers
    /\ touched \subseteq Publishers
    /\ stable \in [Resolvers -> [Places -> Values \cup {None}]]

\* A publication that is confirmed stands until somebody else changes it, a
\* mismatch means that somebody did, and a refused or declined one never
\* happens, not even late: only an error without an answer leaves it open.
PublishIsTrue ==
    \A p \in Publishers :
        /\ outcome[p] = "confirmed" =>
               request[p] = "written" /\ (notes[Call[p].at] = Call[p].value \/ p \in touched)
        /\ outcome[p] = "mismatch" => request[p] = "written" /\ p \in touched
        /\ outcome[p] \in {"refused", "declined"} => request[p] \in {"conflict", "declined"}

\* "or None when neither location holds a note about this DID", beside writers
\* of both: a note that stood during the whole call is not missed, whatever is
\* at the other place, and the sharded one is not passed over for a legacy one.
ResolveIsTrue ==
    \A r \in Resolvers : place[r] = "done" /\ found[r] # "raised" =>
        /\ found[r] # None => IsAbout(found[r])
        /\ IsAbout(stable[r]["sharded"]) => found[r] = stable[r]["sharded"]
        /\ IsAbout(stable[r]["legacy"]) => found[r] # None
=============================================================================
