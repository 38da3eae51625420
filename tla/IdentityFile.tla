---------------------------- MODULE IdentityFile ----------------------------
(***************************************************************************)
(* Identity.load_or_create, save and load (src/technocore/identity.py),    *)
(* and the keygen command that does the same: processes of one user, on    *)
(* one key file.  The secret in it cannot be replaced.                     *)
(*                                                                         *)
(* One step per system call that touches the file.  A process can be       *)
(* killed at any step, a write or an fsync can fail, the power can go.     *)
(* The file system is external; what it keeps after a power loss is what   *)
(* was synced, and a synced file keeps its name.  The mode of the file,    *)
(* its directory and its JSON form are left out.                           *)
(***************************************************************************)
EXTENDS Naturals

CONSTANTS Processes, None

ASSUME ProcessesAssumption == None \notin Processes

VARIABLES file,          \* who created it (its key), and how much is written
          synced,        \* fsync of the file has returned
          pc,            \* "start", "create", "write", "sync", "load", "done"
          outcome,       \* how each process ended, "running" before
          identity,      \* the key of the identity returned
          trouble        \* history: "kill", "disk", "power"

vars == <<file, synced, pc, outcome, identity, trouble>>

Absent == [key |-> None, content |-> "absent"]
Contents == {"absent", "empty", "partial", "full"}
Outcomes == {"created", "loaded", "refused", "unusable", "unwritable", "killed"}

\* A process generates at most one key, which bears its name here.
Init ==
    /\ file = Absent /\ synced = FALSE
    /\ pc = [p \in Processes |-> "start"]
    /\ outcome = [p \in Processes |-> "running"]
    /\ identity = [p \in Processes |-> None]
    /\ trouble = {}

Goto(p, label) ==
    /\ pc' = [pc EXCEPT ![p] = label]
    /\ UNCHANGED <<outcome, identity>>

Finish(p, how, key) ==
    /\ pc' = [pc EXCEPT ![p] = "done"]
    /\ outcome' = [outcome EXCEPT ![p] = how]
    /\ identity' = [identity EXCEPT ![p] = key]

Writes(p, content) == file' = [file EXCEPT !.content = content]

\* os.path.exists; a command that only signs calls load() at once.
Exists(p) ==
    /\ pc[p] = "start"
    /\ Goto(p, IF file = Absent THEN "create" ELSE "load")
    /\ UNCHANGED <<file, synced, trouble>>

LoadOnly(p) ==
    /\ pc[p] = "start"
    /\ Goto(p, "load")
    /\ UNCHANGED <<file, synced, trouble>>

\* Mutation: what was read is returned, unbuilt.
MutLoad(p) ==
    /\ pc[p] = "load"
    /\ IF file.content = "full" THEN Finish(p, "loaded", file)
       ELSE Finish(p, "unusable", None)
    /\ UNCHANGED <<file, synced, trouble>>

\* load: a file that is missing, empty or cut short raises IdentityError.
Load(p) ==
    /\ pc[p] = "load"
    /\ IF file.content = "full" THEN Finish(p, "loaded", file.key)
       ELSE Finish(p, "unusable", None)
    /\ UNCHANGED <<file, synced, trouble>>

\* Mutation: no O_EXCL.
MutCreate(p) ==
    /\ pc[p] = "create"
    /\ file' = [key |-> p, content |-> "empty"] /\ Goto(p, "write")
    /\ UNCHANGED <<synced, trouble>>

\* save: O_CREAT | O_EXCL.
Create(p) ==
    /\ pc[p] = "create"
    /\ IF file = Absent
       THEN file' = [key |-> p, content |-> "empty"] /\ Goto(p, "write")
       ELSE UNCHANGED file /\ Finish(p, "refused", None)
    /\ UNCHANGED <<synced, trouble>>

\* Mutation: the identity is returned before the fsync.
MutWriteUnsynced(p) ==
    /\ pc[p] = "write"
    /\ \/ file.content = "empty" /\ Writes(p, "partial") /\ UNCHANGED <<pc, outcome, identity>>
       \/ Writes(p, "full") /\ Finish(p, "created", p)
    /\ UNCHANGED <<synced, trouble>>

\* Mutation: a short write is taken for the whole one.
MutWriteShort(p) ==
    /\ pc[p] = "write"
    /\ Writes(p, "partial") /\ Goto(p, "sync")
    /\ UNCHANGED <<synced, trouble>>

\* json.dump and flush: some of it first, or all at once.
Write(p) ==
    /\ pc[p] = "write"
    /\ \/ file.content = "empty" /\ Writes(p, "partial") /\ UNCHANGED <<pc, outcome, identity>>
       \/ Writes(p, "full") /\ Goto(p, "sync")
    /\ UNCHANGED <<synced, trouble>>

\* A full disk, an I/O error: what was written stays in the file, and closing
\* it may write the rest after all.
WriteFails(p) ==
    /\ pc[p] \in {"write", "sync"}
    /\ file' \in {file, [file EXCEPT !.content = "full"]}
    /\ Finish(p, "unwritable", None)
    /\ trouble' = trouble \cup {"disk"}
    /\ UNCHANGED synced

\* os.fsync, and only then the identity is returned.
Sync(p) ==
    /\ pc[p] = "sync"
    /\ synced' = TRUE
    /\ Finish(p, "created", p)
    /\ UNCHANGED <<file, trouble>>

Kill(p) ==
    /\ pc[p] # "done"
    /\ Finish(p, "killed", None)
    /\ trouble' = trouble \cup {"kill"}
    /\ UNCHANGED <<file, synced>>

\* Power loss: nothing runs on, and what was not synced may be gone in part.
\* Processes that have not started yet start after the reboot.
Lesser == [absent |-> {"absent"}, empty |-> {"absent", "empty"},
           partial |-> {"absent", "empty", "partial"}, full |-> Contents]

PowerLoss ==
    /\ "power" \notin trouble
    /\ trouble' = trouble \cup {"power"}
    /\ IF synced THEN UNCHANGED file
       ELSE \E content \in Lesser[file.content] :
              file' = IF content = "absent" THEN Absent ELSE [file EXCEPT !.content = content]
    /\ pc' = [p \in Processes |-> IF pc[p] = "start" THEN "start" ELSE "done"]
    /\ outcome' = [p \in Processes |->
                      IF pc[p] \in {"start", "done"} THEN outcome[p] ELSE "killed"]
    /\ UNCHANGED <<synced, identity>>

Step(p) ==
    \/ Exists(p) \/ LoadOnly(p) \/ Load(p) \/ Create(p)
    \/ Write(p) \/ WriteFails(p) \/ Sync(p) \/ Kill(p)

Next == (\E p \in Processes : Step(p)) \/ PowerLoss

Spec == Init /\ [][Next]_vars

-----------------------------------------------------------------------------
(* Properties. *)

TypeOK ==
    /\ file \in [key : Processes \cup {None}, content : Contents]
    /\ synced \in BOOLEAN
    /\ pc \in [Processes -> {"start", "create", "write", "sync", "load", "done"}]
    /\ outcome \in [Processes -> Outcomes \cup {"running"}]
    /\ identity \in [Processes -> Processes \cup {None}]
    /\ trouble \subseteq {"kill", "disk", "power"}

\* "Make sure it is actually on disk before we tell the user it was saved": a
\* created identity is in the file, whole, whatever happens afterwards.
CreatedIsForever ==
    \A p \in Processes : outcome[p] = "created" => file = [key |-> p, content |-> "full"]

\* Processes that race for the file end up with one identity: only a power
\* loss before the fsync can take away a key that another process has loaded.
OneIdentity ==
    "power" \notin trouble =>
        \A p, q \in Processes :
            identity[p] # None /\ identity[q] # None => identity[p] = identity[q]

\* "Never clobbers an existing file": no run gives the file another key or
\* takes away what another one wrote; a power loss can, before the fsync.
NeverClobbered ==
    [][file # Absent /\ trouble' \ trouble # {"power"} =>
          /\ file'.key = file.key
          /\ file.content = "full" => file' = file]_vars

\* The loser of a race is refused on the way to a good file: without a kill,
\* an I/O error or a power loss nobody leaves the path blocked by a broken one.
BlockedMeansTrouble ==
    (\A p \in Processes : pc[p] = "done") /\ trouble = {} /\ file # Absent
    => file.content = "full" /\ outcome[file.key] = "created"
=============================================================================
