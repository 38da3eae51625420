--------------------------------- MODULE Say ---------------------------------
(***************************************************************************)
(* Posting under one key in one room: say_signed                           *)
(* (src/technocore/client.py) and `technocore say --record`                *)
(* (src/technocore/cli.py), several processes at once.  A post carries a   *)
(* nonce from the clock, which the service wants above the last; a record, *)
(* the only proof of a post, is written to a file after the answer.        *)
(*                                                                         *)
(* A post whose answer was lost may be executed later.  Two processes that *)
(* have one file open may leave a mixture of their records in it, and what *)
(* a power loss leaves of a record, which nobody syncs, is open.           *)
(***************************************************************************)
EXTENDS Naturals

CONSTANTS
    Posts,               \* processes, each with one post
    Paths,               \* files
    Record,              \* --record: the path of each post, or None
    MayForce,            \* posts whose command may say --force
    MaxClock,            \* bound: the clock, in milliseconds
    None

Torn == {"empty", "partial"}

ASSUME PostAssumption ==
    /\ Record \in [Posts -> Paths \cup {None}] /\ None \notin Paths
    /\ MayForce \subseteq Posts /\ MaxClock \in Nat

\* A whole record is the post it proves.
ASSUME ContentAssumption ==
    /\ ({None, "old"} \cup Torn) \cap Posts = {}
    /\ None \notin {"old"} \cup Torn

VARIABLES
    forced,              \* the posts with --force
    pc,                  \* where each process is
    clock,               \* time.time(), which may be set back
    nonce,               \* the nonce of each post
    counter,             \* the service: the last nonce of this key and room
    request,             \* what became of each post
    file,                \* what is at each path
    outcome,             \* how each process ended
    before,              \* history: what was at each path at first
    raced,               \* history: posts that were both between their look at
                         \* the path and their end when one of them opened it
    lost                 \* history: posts whose record went with the power

disk == <<file, raced, lost>>
inputs == <<forced, before>>
vars == <<pc, clock, nonce, counter, request, outcome, inputs, disk>>

Init ==
    /\ forced \in SUBSET MayForce
    /\ pc = [p \in Posts |-> "check"]
    /\ clock \in 1 .. MaxClock
    /\ nonce = [p \in Posts |-> 0]
    /\ counter = 0
    /\ request = [p \in Posts |-> "none"]
    /\ file \in [Paths -> {None, "old"}] /\ before = file
    /\ outcome = [p \in Posts |-> "none"]
    /\ raced = {} /\ lost = {}

Goto(p, label) == pc' = [pc EXCEPT ![p] = label]

Finish(p, result) ==
    /\ Goto(p, "done")
    /\ outcome' = [outcome EXCEPT ![p] = result]

-----------------------------------------------------------------------------
(* cmd_say and say_signed. *)

\* Mutation: only what is a whole record is looked for.
MutExists(p) == Record[p] # None /\ file[Record[p]] \in Posts

Exists(p) == Record[p] # None /\ file[Record[p]] # None

\* "Before posting, not after".
Check(p) ==
    /\ pc[p] = "check"
    /\ IF Exists(p) /\ p \notin forced
       THEN Finish(p, "exists")
       ELSE Goto(p, "sign") /\ UNCHANGED outcome
    /\ UNCHANGED <<clock, nonce, counter, request, inputs, disk>>

\* Mutation: the nonce is a millisecond ahead.
MutNonce == clock + 1

Nonce == clock

\* The nonce is read from the clock, signed and sent.
Sign(p) ==
    /\ pc[p] = "sign"
    /\ nonce' = [nonce EXCEPT ![p] = Nonce]
    /\ request' = [request EXCEPT ![p] = "sent"]
    /\ Goto(p, "wait")
    /\ UNCHANGED <<clock, counter, outcome, inputs, disk>>

\* HTTPError
Refused(p) ==
    /\ pc[p] = "wait" /\ request[p] \in {"stale", "declined"}
    /\ Finish(p, "refused")
    /\ UNCHANGED <<clock, nonce, counter, request, inputs, disk>>

\* Mutation: no answer is taken for a refusal.
MutGiveUp(p) ==
    /\ pc[p] = "wait"
    /\ Finish(p, "refused")
    /\ UNCHANGED <<clock, nonce, counter, request, inputs, disk>>

\* TransportError: no answer came, or an unreadable one, and no record.
GiveUp(p) ==
    /\ pc[p] = "wait"
    /\ Finish(p, "unknown")
    /\ UNCHANGED <<clock, nonce, counter, request, inputs, disk>>

\* Mutation: the record is built, and saved, before the answer.
MutAnswered(p) == pc[p] = "wait"

Answered(p) == pc[p] = "wait" /\ request[p] = "executed"

\* say_signed returns the record, which is printed or saved.
Posted(p) ==
    /\ Answered(p)
    /\ IF Record[p] = None
       THEN Finish(p, "posted")
       ELSE Goto(p, "open") /\ UNCHANGED outcome
    /\ UNCHANGED <<clock, nonce, counter, request, inputs, disk>>

Rivals(p) == {q \in Posts \ {p} : Record[q] = Record[p]}

\* open(path, "w") makes or empties the file.
Open(p) ==
    /\ pc[p] = "open"
    /\ file' = [file EXCEPT ![Record[p]] = "empty"]
    /\ raced' = raced \cup {{p, q} : q \in {q \in Rivals(p) : pc[q] \notin {"check", "done"}}}
    /\ Goto(p, "write")
    /\ UNCHANGED <<clock, nonce, counter, request, outcome, inputs, lost>>

Contents(p) == IF \E q \in Rivals(p) : {p, q} \in raced THEN {p, "partial"} ELSE {p}

\* json.dump and close: a part of the record reaches the file, or all of it.
Store(p) ==
    /\ pc[p] = "write"
    /\ \/ file' = [file EXCEPT ![Record[p]] = "partial"] /\ UNCHANGED <<pc, outcome>>
       \/ \E c \in Contents(p) :
             file' = [file EXCEPT ![Record[p]] = c] /\ Finish(p, "recorded")
    /\ UNCHANGED <<clock, nonce, counter, request, inputs, raced, lost>>

\* The directory is gone, the disk is full; close may fail when all is written.
StoreFails(p) ==
    /\ \/ pc[p] \in {"open", "write"} /\ UNCHANGED file
       \/ /\ pc[p] = "write"
          /\ \E c \in Contents(p) \cup {"partial"} :
                file' = [file EXCEPT ![Record[p]] = c]
    /\ Finish(p, "unrecorded")
    /\ UNCHANGED <<clock, nonce, counter, request, inputs, raced, lost>>

\* The process is killed.
Kill(p) ==
    /\ pc[p] # "done"
    /\ Finish(p, "killed")
    /\ UNCHANGED <<clock, nonce, counter, request, inputs, disk>>

Process(p) ==
    \/ Check(p) \/ Sign(p) \/ Refused(p) \/ GiveUp(p) \/ Posted(p)
    \/ Open(p) \/ Store(p) \/ StoreFails(p) \/ Kill(p)

\* Written since the beginning, and not synced.
Unsynced == {path \in Paths : file[path] \notin {None, "old"}}

\* Some unsynced files are as they were at first, empty or cut short.  Who has
\* not looked at its path yet starts afterwards.
PowerLoss ==
    /\ \E gone \in SUBSET Unsynced, left \in [Paths -> Torn \cup {"before"}] :
        /\ file' = [path \in Paths |->
                       IF path \notin gone THEN file[path]
                       ELSE IF left[path] = "before" THEN before[path] ELSE left[path]]
        /\ lost' = lost \cup {p \in Posts : outcome[p] = "recorded" /\ Record[p] \in gone}
    /\ pc' = [p \in Posts |-> IF pc[p] = "check" THEN "check" ELSE "done"]
    /\ outcome' = [p \in Posts |->
                      IF pc[p] \in {"check", "done"} THEN outcome[p] ELSE "killed"]
    /\ UNCHANGED <<clock, nonce, counter, request, inputs, raced>>

-----------------------------------------------------------------------------
(* The service and the clock. *)

\* "a value strictly greater than the last nonce this key used in this room"
Execute(p) ==
    /\ request[p] = "sent" /\ nonce[p] > counter
    /\ counter' = nonce[p]
    /\ request' = [request EXCEPT ![p] = "executed"]
    /\ UNCHANGED <<pc, clock, nonce, outcome, inputs, disk>>

Stale(p) ==
    /\ request[p] = "sent" /\ nonce[p] <= counter
    /\ request' = [request EXCEPT ![p] = "stale"]
    /\ UNCHANGED <<pc, clock, nonce, counter, outcome, inputs, disk>>

\* A rate limit or a 5xx.
Decline(p) ==
    /\ request[p] = "sent"
    /\ request' = [request EXCEPT ![p] = "declined"]
    /\ UNCHANGED <<pc, clock, nonce, counter, outcome, inputs, disk>>

Service(p) == Execute(p) \/ Stale(p) \/ Decline(p)

\* The clock goes on, or is set.
Clock ==
    /\ clock' \in 1 .. MaxClock
    /\ UNCHANGED <<pc, nonce, counter, request, outcome, inputs, disk>>

Next == Clock \/ PowerLoss \/ \E p \in Posts : Process(p) \/ Service(p)

Spec == Init /\ [][Next]_vars

-----------------------------------------------------------------------------
(* Properties. *)

TypeOK ==
    /\ forced \subseteq MayForce
    /\ pc \in [Posts -> {"check", "sign", "wait", "open", "write", "done"}]
    /\ clock \in 1 .. MaxClock /\ counter \in 0 .. MaxClock
    /\ nonce \in [Posts -> 0 .. MaxClock]
    /\ request \in [Posts -> {"none", "sent", "executed", "stale", "declined"}]
    /\ outcome \in [Posts -> {"none", "exists", "refused", "unknown", "posted",
                              "recorded", "unrecorded", "killed"}]
    /\ file \in [Paths -> {None, "old"} \cup Torn \cup Posts]
    /\ before \in [Paths -> {None, "old"}]
    /\ raced \subseteq SUBSET Posts /\ lost \subseteq Posts

\* What a process reports is what happened to its post, then and later: a
\* refused one is never executed, one that stops at an existing file was never
\* sent, and a stale nonce has its cause, a post of the same key with a nonce
\* as large: of the same millisecond, later, or before the clock was set back.
SayIsTrue ==
    \A p \in Posts :
        /\ outcome[p] \in {"posted", "recorded", "unrecorded"} => request[p] = "executed"
        /\ outcome[p] = "refused" => request[p] \in {"stale", "declined"}
        /\ outcome[p] = "exists" => request[p] = "none"
        /\ request[p] = "stale" =>
               \E q \in Posts \ {p} : request[q] = "executed" /\ nonce[q] >= nonce[p]

\* A whole record is never of a post that was not made, whatever was refused,
\* lost or killed on the way.
RecordIsProof ==
    \A path \in Paths : file[path] \in Posts =>
        request[file[path]] = "executed" /\ Record[file[path]] = path

\* "a record is the only copy of unretractable proof": without --force no file
\* of an earlier run is touched, and a record that was written stays unless the
\* power went or two processes raced from their look at the path to its opening.
ProofIsKept ==
    /\ \A path \in Paths :
           before[path] = "old" /\ (\A p \in forced : Record[p] # path) => file[path] = "old"
    /\ \A p \in Posts :
           outcome[p] = "recorded" /\ p \notin lost /\ file[Record[p]] # p =>
               \E q \in Rivals(p) : q \in forced \/ {p, q} \in raced
=============================================================================
