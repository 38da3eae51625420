----------------------------- MODULE NoteUpdate -----------------------------
(***************************************************************************)
(* Client.update_note (src/technocore/client.py): the read-modify-write    *)
(* loop on a note of a store anyone can write.  Several calls run on one   *)
(* note, beside unconditional writers (set_note without a condition) and   *)
(* the service's reclaiming of idle notes.                                 *)
(*                                                                         *)
(* A conditional write is a request on its way: the service answers it, or *)
(* not, and the caller gets the answer, or not.  A request whose caller    *)
(* has given up may still be executed.  The service is external: it is     *)
(* modelled from the conditions set_note sends and the errors it handles.  *)
(* Values are in the swept form the service stores.                        *)
(***************************************************************************)
EXTENDS Naturals

CONSTANTS Calls,         \* calls of update_note
          Creators,      \* the calls with create_missing=True
          Attempts,      \* the parameter attempts
          Values,        \* what a note can hold
          Mutate,        \* Mutate[c][v], v None for a missing note
          Refused,       \* mutate raised, or set_note refused its result
          None

ASSUME AttemptsAssumption == Attempts \in Nat \ {0}

ASSUME CallsAssumption == Creators \subseteq Calls

ASSUME MutateAssumption ==
    /\ Mutate \in [Calls -> [Values \cup {None} -> Values \cup {Refused}]]
    /\ None \notin Values \cup Calls /\ Refused \notin Values

VARIABLES value,         \* the note at the service, None when missing
          pc,            \* "read", "write", "wait" or "done"
          attempt,       \* the attempts whose write lost
          current,       \* what the last get_note found
          request,       \* the conditional write: "none", "sent" or its answer
          outcome,       \* how the call ended, "running" before
          applied,       \* history: the calls whose write was executed
          foreign        \* history: changes of the note since the call began,
                         \* by others, counted up to Attempts

vars == <<value, pc, attempt, current, request, outcome, applied, foreign>>

Outcomes == {"ok", "conflict", "failed", "unknown"}
Answers == {"written", "conflict", "declined"}

Init ==
    /\ value \in Values \cup {None}
    /\ pc = [c \in Calls |-> "read"]
    /\ attempt = [c \in Calls |-> 0]
    /\ current = [c \in Calls |-> None]
    /\ request = [c \in Calls |-> "none"]
    /\ outcome = [c \in Calls |-> "running"]
    /\ applied = {}
    /\ foreign = [c \in Calls |-> 0]

Finish(c, how) ==
    /\ pc' = [pc EXCEPT ![c] = "done"]
    /\ outcome' = [outcome EXCEPT ![c] = how]

\* The note changes: every other call has one more change to reckon with.
Changes(newValue, by) ==
    /\ value' = newValue
    /\ foreign' = [c \in Calls |->
          IF c # by /\ newValue # value /\ foreign[c] < Attempts
          THEN foreign[c] + 1 ELSE foreign[c]]

\* get_note answers; a 404 is a missing note.
Read(c) ==
    /\ pc[c] = "read"
    /\ current' = [current EXCEPT ![c] = value]
    /\ pc' = [pc EXCEPT ![c] = "write"]
    /\ UNCHANGED <<value, attempt, request, outcome, applied, foreign>>

\* get_note raises anything else.
ReadFails(c) ==
    /\ pc[c] = "read"
    /\ Finish(c, "failed")
    /\ UNCHANGED <<value, attempt, current, request, applied, foreign>>

CanWrite(c) ==
    /\ current[c] = None => c \in Creators
    /\ Mutate[c][current[c]] # Refused

\* mutate is applied and its result sent, on the condition that the note is
\* still absent (if_absent) or still holds what was read (if_value).
Write(c) ==
    /\ pc[c] = "write" /\ CanWrite(c)
    /\ pc' = [pc EXCEPT ![c] = "wait"]
    /\ request' = [request EXCEPT ![c] = "sent"]
    /\ UNCHANGED <<value, attempt, current, outcome, applied, foreign>>

\* create_missing is False, mutate raises, or the value is refused unsent.
Refuse(c) ==
    /\ pc[c] = "write" /\ ~CanWrite(c)
    /\ Finish(c, "failed")
    /\ UNCHANGED <<value, attempt, current, request, applied, foreign>>

\* Mutation: the write is sent without its condition.
MutExecuteBlindly(c) ==
    /\ request[c] = "sent"
    /\ Changes(Mutate[c][current[c]], c)
    /\ request' = [request EXCEPT ![c] = "written"]
    /\ applied' = applied \cup {c}
    /\ UNCHANGED <<pc, attempt, current, outcome>>

\* The service executes the write: the condition holds at this moment.
Execute(c) ==
    /\ request[c] = "sent"
    /\ value = current[c]
    /\ Changes(Mutate[c][current[c]], c)
    /\ request' = [request EXCEPT ![c] = "written"]
    /\ applied' = applied \cup {c}
    /\ UNCHANGED <<pc, attempt, current, outcome>>

\* 409: the condition does not hold.
Conflict(c) ==
    /\ request[c] = "sent"
    /\ value # current[c]
    /\ request' = [request EXCEPT ![c] = "conflict"]
    /\ UNCHANGED <<value, pc, attempt, current, outcome, applied, foreign>>

\* Any other refusal (namespace full, rate limit, 5xx after the retries).
Decline(c) ==
    /\ request[c] = "sent"
    /\ request' = [request EXCEPT ![c] = "declined"]
    /\ UNCHANGED <<value, pc, attempt, current, outcome, applied, foreign>>

Return(c) ==
    /\ pc[c] = "wait" /\ request[c] = "written"
    /\ Finish(c, "ok")
    /\ UNCHANGED <<value, attempt, current, request, applied, foreign>>

\* Mutation: one attempt too many.
MutRetryOnceMore(c) ==
    /\ pc[c] = "wait" /\ request[c] = "conflict"
    /\ attempt' = [attempt EXCEPT ![c] = @ + 1]
    /\ request' = [request EXCEPT ![c] = "none"]
    /\ IF attempt[c] < Attempts
       THEN pc' = [pc EXCEPT ![c] = "read"] /\ UNCHANGED outcome
       ELSE Finish(c, "conflict")
    /\ UNCHANGED <<value, current, applied, foreign>>

\* Mutation: one attempt too few.
MutRetryOnceLess(c) ==
    /\ pc[c] = "wait" /\ request[c] = "conflict"
    /\ attempt' = [attempt EXCEPT ![c] = @ + 1]
    /\ request' = [request EXCEPT ![c] = "none"]
    /\ IF attempt[c] + 2 < Attempts
       THEN pc' = [pc EXCEPT ![c] = "read"] /\ UNCHANGED outcome
       ELSE Finish(c, "conflict")
    /\ UNCHANGED <<value, current, applied, foreign>>

\* Mutation: attempts are not counted.
MutRetryForever(c) ==
    /\ pc[c] = "wait" /\ request[c] = "conflict"
    /\ request' = [request EXCEPT ![c] = "none"]
    /\ pc' = [pc EXCEPT ![c] = "read"]
    /\ UNCHANGED <<value, attempt, current, outcome, applied, foreign>>

\* ConflictError: read again, or give up after the last attempt.
Retry(c) ==
    /\ pc[c] = "wait" /\ request[c] = "conflict"
    /\ attempt' = [attempt EXCEPT ![c] = @ + 1]
    /\ request' = [request EXCEPT ![c] = "none"]
    /\ IF attempt[c] + 1 < Attempts
       THEN pc' = [pc EXCEPT ![c] = "read"] /\ UNCHANGED outcome
       ELSE Finish(c, "conflict")
    /\ UNCHANGED <<value, current, applied, foreign>>

Fail(c) ==
    /\ pc[c] = "wait" /\ request[c] = "declined"
    /\ Finish(c, "failed")
    /\ UNCHANGED <<value, attempt, current, request, applied, foreign>>

\* Mutation: no answer is taken for no effect.
MutGiveUpAsFailed(c) ==
    /\ pc[c] = "wait"
    /\ Finish(c, "failed")
    /\ UNCHANGED <<value, attempt, current, request, applied, foreign>>

\* TransportError: no answer in time, whatever became of the request.
GiveUp(c) ==
    /\ pc[c] = "wait"
    /\ Finish(c, "unknown")
    /\ UNCHANGED <<value, attempt, current, request, applied, foreign>>

\* An unconditional set_note, or the reclaiming of an idle note.
Overwrite(v) ==
    /\ v # value
    /\ Changes(v, None)
    /\ UNCHANGED <<pc, attempt, current, request, outcome, applied>>

Caller(c) ==
    \/ Read(c) \/ ReadFails(c) \/ Write(c) \/ Refuse(c)
    \/ Return(c) \/ Retry(c) \/ Fail(c) \/ GiveUp(c)

Service(c) == Execute(c) \/ Conflict(c) \/ Decline(c)

Next ==
    \/ \E c \in Calls : Caller(c) \/ Service(c)
    \/ \E v \in Values \cup {None} : Overwrite(v)

Spec == Init /\ [][Next]_vars

\* The caller's thread runs; the service owes nothing (a timeout ends a wait).
FairSpec == Spec /\ \A c \in Calls : WF_vars(Caller(c))

-----------------------------------------------------------------------------
(* Properties. *)

TypeOK ==
    /\ value \in Values \cup {None}
    /\ pc \in [Calls -> {"read", "write", "wait", "done"}]
    /\ attempt \in [Calls -> 0 .. Attempts]
    /\ current \in [Calls -> Values \cup {None}]
    /\ request \in [Calls -> Answers \cup {"none", "sent"}]
    /\ outcome \in [Calls -> Outcomes \cup {"running"}]
    /\ applied \subseteq Calls
    /\ foreign \in [Calls -> 0 .. Attempts]

\* The caller learns the truth: a returned call was executed, once, and one
\* that raised a ConflictError or a refusal never is, not even later.
OutcomeIsTrue ==
    \A c \in Calls :
        /\ outcome[c] = "ok" => c \in applied
        /\ outcome[c] \in {"conflict", "failed"} => c \notin applied /\ request[c] # "sent"

\* ConflictError means a busier writer: every attempt lost to a change of its
\* own that somebody else made while the call ran.
ConflictMeansInterference ==
    \A c \in Calls : outcome[c] = "conflict" => foreign[c] >= Attempts

\* A call makes at most one change (a lost answer is not written again).
AppliedAtMostOnce ==
    [][\A c \in applied : request[c] # "sent" /\ request'[c] # "sent"]_vars

\* "The last writer wins and the other change is gone with nothing raised"
\* does not happen: a write is executed on the very value mutate was given.
Atomic == INSTANCE AtomicNote
AtomicSpec == Atomic!Spec

\* The loop ends, however busy the other writers are.
CallsEnd == \A c \in Calls : <>(pc[c] = "done")
=============================================================================
