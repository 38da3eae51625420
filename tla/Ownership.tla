----------------------------- MODULE Ownership -----------------------------
(***************************************************************************)
(* Client.claim_room and Client.allow_writers (src/technocore/client.py):  *)
(* signed writes of the two notes of one d- room, its owner and its list   *)
(* of writers.  Both read the room's replay counter, sign the next nonce   *)
(* and write on the signed lane, whose service refuses a nonce that is not *)
(* above the counter.                                                      *)
(*                                                                         *)
(* Calls run concurrently, a write may be delayed past the moment its      *)
(* caller stops waiting, and its answer may be lost.  The service is       *)
(* external: it is modelled from what the docstrings of room_nonce,        *)
(* claim_room, allow_writers and set_note_signed say of it, and it         *)
(* reclaims notes (docstring of set_note): "Nothing is durable".           *)
(***************************************************************************)
EXTENDS Naturals

CONSTANTS Calls,         \* calls of the two operations on one room
          Claims,        \* the calls of claim_room; the others set the list
          Signer,        \* the key of the identity each call is given
          Given,         \* the nonce each call is given, None for the default
          MaxNonce,      \* the largest nonce _NONCE matches
          None

ASSUME OwnershipAssumption ==
    /\ Claims \subseteq Calls
    /\ DOMAIN Signer = Calls
    /\ MaxNonce \in Nat \ {0}
    /\ Given \in [Calls -> Nat \cup {None}]
    /\ None \notin Nat \cup {Signer[c] : c \in Calls} \cup Calls

VARIABLES owner,         \* /kv/room-owners/<room>, None before a claim
          allow,         \* /kv/room-allow/<room>: the call that wrote it
          counter,       \* /kv/room-nonce/<room>, None before the first write
          pc,            \* "start", "write", "wait" or "done"
          nonce,         \* what each call signed
          request,       \* the signed write: "none", "sent" or its answer
          outcome,       \* how each call ended, "running" before
          overtaken,     \* history: a write was executed since the nonce was read
          lapsed,        \* history: the notes reclaimed since then
          misread        \* history: the counter's text was taken for no counter

call == <<pc, nonce, request, outcome>>
notes == <<owner, allow, counter>>
history == <<overtaken, lapsed, misread>>
vars == <<notes, call, history>>

Keys == {Signer[c] : c \in Calls}
Answers == {"written", "exists", "stale", "denied", "declined"}
Outcomes == {"ok", "conflict", "forbidden", "failed", "unknown"}
Notes == {"owner", "allow", "counter"}

\* room_nonce(room) or 0
Counter == IF counter = None THEN 0 ELSE counter

Init ==
    /\ owner = None /\ allow = None /\ counter = None
    /\ pc = [c \in Calls |-> "start"]
    /\ nonce = [c \in Calls |-> 0]
    /\ request = [c \in Calls |-> "none"]
    /\ outcome = [c \in Calls |-> "running"]
    /\ overtaken = [c \in Calls |-> FALSE]
    /\ lapsed = [c \in Calls |-> {}]
    /\ misread = [c \in Calls |-> FALSE]

Finish(c, how) ==
    /\ pc' = [pc EXCEPT ![c] = "done"]
    /\ outcome' = [outcome EXCEPT ![c] = how]

\* Mutation: a room without a counter gets no nonce.
MutNextNonceNone(c) == IF Given[c] = None THEN counter ELSE Given[c]

\* Mutation: a list's nonce leaves room for a claim's.
MutNextNonceAhead(c) ==
    IF Given[c] = None THEN Counter + (IF c \in Claims THEN 1 ELSE 2) ELSE Given[c]

\* The nonce is the one given, or one more than the counter the service names
\* (a 404 is no counter yet).
NextNonce(c) == IF Given[c] = None THEN Counter + 1 ELSE Given[c]

ReadNonce(c) ==
    /\ pc[c] = "start"
    /\ nonce' = [nonce EXCEPT ![c] = NextNonce(c)]
    /\ pc' = [pc EXCEPT ![c] = "write"]
    /\ UNCHANGED <<notes, request, outcome, history>>

\* A body that is not all digits is no counter to room_nonce.
MisreadNonce(c) ==
    /\ pc[c] = "start" /\ Given[c] = None /\ counter # None
    /\ nonce' = [nonce EXCEPT ![c] = 1]
    /\ pc' = [pc EXCEPT ![c] = "write"]
    /\ misread' = [misread EXCEPT ![c] = TRUE]
    /\ UNCHANGED <<notes, request, outcome, overtaken, lapsed>>

\* Mutation: a failed read is taken for "no counter".
MutReadFails(c) ==
    /\ pc[c] = "start" /\ Given[c] = None
    /\ nonce' = [nonce EXCEPT ![c] = 1]
    /\ pc' = [pc EXCEPT ![c] = "write"]
    /\ UNCHANGED <<notes, request, outcome, history>>

\* Any error of the read but a 404 is raised, never taken for "no counter".
ReadFails(c) ==
    /\ pc[c] = "start" /\ Given[c] = None
    /\ Finish(c, "failed")
    /\ UNCHANGED <<notes, nonce, request, history>>

\* set_note_signed: sign, verify the signature, send.
Write(c) ==
    /\ pc[c] = "write" /\ nonce[c] <= MaxNonce
    /\ pc' = [pc EXCEPT ![c] = "wait"]
    /\ request' = [request EXCEPT ![c] = "sent"]
    /\ UNCHANGED <<notes, nonce, outcome, history>>

\* SignatureError: 20 digits are no nonce.
Refuse(c) ==
    /\ pc[c] = "write" /\ nonce[c] > MaxNonce
    /\ Finish(c, "failed")
    /\ UNCHANGED <<notes, nonce, request, history>>

\* The conditions under which the service executes the write: if_absent for a
\* claim, the owner's key for a list, a nonce above the counter for both.
IsFree(c) == c \in Claims => owner = None
IsEntitled(c) == c \notin Claims => owner = Signer[c]
IsFresh(c) == nonce[c] > Counter

Execute(c) ==
    /\ request[c] = "sent"
    /\ IsFree(c) /\ IsEntitled(c) /\ IsFresh(c)
    /\ owner' = IF c \in Claims THEN Signer[c] ELSE owner
    /\ allow' = IF c \in Claims THEN allow ELSE c
    /\ counter' = nonce[c]
    /\ request' = [request EXCEPT ![c] = "written"]
    /\ overtaken' = [d \in Calls |-> overtaken[d] \/ (d # c /\ pc[d] \in {"write", "wait", "done"})]
    /\ UNCHANGED <<pc, nonce, outcome, lapsed, misread>>

\* 409, 403 for the nonce, 403 for the key, or any other refusal.
Reject(c) ==
    /\ request[c] = "sent"
    /\ \/ ~IsFree(c) /\ request' = [request EXCEPT ![c] = "exists"]
       \/ ~IsFresh(c) /\ request' = [request EXCEPT ![c] = "stale"]
       \/ ~IsEntitled(c) /\ request' = [request EXCEPT ![c] = "denied"]
       \/ request' = [request EXCEPT ![c] = "declined"]
    /\ UNCHANGED <<notes, pc, nonce, outcome, history>>

\* The answer is returned or raised.
Return(c) ==
    /\ pc[c] = "wait" /\ request[c] \in Answers
    /\ Finish(c, CASE request[c] = "written" -> "ok"
                   [] request[c] = "exists" -> "conflict"
                   [] request[c] \in {"stale", "denied"} -> "forbidden"
                   [] request[c] = "declined" -> "failed")
    /\ UNCHANGED <<notes, nonce, request, history>>

\* Mutation: no answer is taken for no effect.
MutGiveUp(c) ==
    /\ pc[c] = "wait"
    /\ Finish(c, "failed")
    /\ UNCHANGED <<notes, nonce, request, history>>

\* TransportError: the caller stops waiting, the request may still arrive.
GiveUp(c) ==
    /\ pc[c] = "wait"
    /\ Finish(c, "unknown")
    /\ UNCHANGED <<notes, nonce, request, history>>

\* The service reclaims a note that was idle for a week.  There is no time here:
\* any note, at any moment, between any two steps of the calls.
Lapse(note) ==
    /\ lapsed' = [c \in Calls |-> IF pc[c] = "start" THEN {} ELSE lapsed[c] \cup {note}]
    /\ UNCHANGED <<call, overtaken, misread>>

ReclaimOwner == owner # None /\ owner' = None /\ Lapse("owner") /\ UNCHANGED <<allow, counter>>
ReclaimAllow == allow # None /\ allow' = None /\ Lapse("allow") /\ UNCHANGED <<owner, counter>>
ReclaimCounter ==
    counter # None /\ counter' = None /\ Lapse("counter") /\ UNCHANGED <<owner, allow>>

Next ==
    \/ \E c \in Calls :
        \/ ReadNonce(c) \/ MisreadNonce(c) \/ ReadFails(c) \/ Write(c) \/ Refuse(c)
        \/ Execute(c) \/ Reject(c) \/ Return(c) \/ GiveUp(c)
    \/ ReclaimOwner \/ ReclaimAllow \/ ReclaimCounter

Spec == Init /\ [][Next]_vars

-----------------------------------------------------------------------------
(* Properties. *)

TypeOK ==
    /\ owner \in Keys \cup {None} /\ allow \in Calls \cup {None}
    /\ counter \in Nat \cup {None}
    /\ pc \in [Calls -> {"start", "write", "wait", "done"}]
    /\ nonce \in [Calls -> Nat]
    /\ request \in [Calls -> Answers \cup {"none", "sent"}]
    /\ outcome \in [Calls -> Outcomes \cup {"running"}]
    /\ overtaken \in [Calls -> BOOLEAN]
    /\ lapsed \in [Calls -> SUBSET Notes]
    /\ misread \in [Calls -> BOOLEAN]

\* A 403 for a nonce the client chose itself means that another write came in
\* between, or that the counter's text was no number: without interference the
\* counter's successor is accepted, also when the counter is reclaimed meanwhile,
\* and no failed read is mistaken for a room without a counter (comment in
\* room_nonce).
StaleMeansOvertaken ==
    \A c \in Calls : request[c] = "stale" /\ Given[c] = None => overtaken[c] \/ misread[c]

\* "A stale nonce is rejected rather than applied out of order": a write that
\* was overtaken, however long it was on its way, is never executed, unless the
\* service has forgotten its counter since the nonce was chosen.
NothingIsAppliedLate ==
    [][\A c \in Calls :
          /\ request[c] = "sent" /\ request'[c] = "written"
          /\ Given[c] = None /\ overtaken[c]
          => "counter" \in lapsed[c]]_vars

\* What a call returned or raised is true, and stays true until the note it is
\* about is reclaimed: a claim's signer is the owner, whatever other claims and
\* late writes arrive; a list was the owner's and is never replaced by another
\* whose nonce is smaller; a call that reported a refusal has no effect later.
ReturnedIsTrue ==
    \A c \in Calls :
        /\ outcome[c] = "ok" =>
              /\ "owner" \in lapsed[c] \/ owner = Signer[c]
              /\ "counter" \in lapsed[c] \/ Counter >= nonce[c]
              /\ \/ c \in Claims
                 \/ "allow" \in lapsed[c]
                 \/ allow # None /\ ("counter" \in lapsed[c] \/ nonce[allow] >= nonce[c])
        /\ outcome[c] \in {"conflict", "forbidden", "failed"} => request[c] \notin {"sent", "written"}
=============================================================================
