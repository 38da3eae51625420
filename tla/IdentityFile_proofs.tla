------------------------ MODULE IdentityFile_proofs ------------------------
(***************************************************************************)
(* Proofs about IdentityFile, for any number of processes.                 *)
(*                                                                         *)
(* IInv says who has the file: a process that writes is its creator, what  *)
(* is synced is whole and was reported as created, an identity that was    *)
(* returned is the file's as long as the power stays on, and without any   *)
(* trouble the creator is still at work or has created its identity.       *)
(***************************************************************************)
EXTENDS IdentityFile, TLAPS

\* The file as such.
FileOK ==
    /\ file.key = None <=> file.content = "absent"
    /\ synced => /\ file.content = "full"
                 /\ file.key # None
                 /\ outcome[file.key] = "created"

\* A process and the file.
Holds(p) ==
    /\ pc[p] = "done" <=> outcome[p] # "running"
    /\ pc[p] = "write" => file.key = p /\ file.content \in {"empty", "partial"}
    /\ pc[p] = "sync" => file.key = p /\ file.content = "full"
    /\ outcome[p] = "created" => synced /\ file.key = p
    /\ identity[p] # None /\ "power" \notin trouble =>
          file.key = identity[p] /\ file.content = "full"
    /\ trouble = {} /\ file.key = p => pc[p] \in {"write", "sync"} \/ outcome[p] = "created"

IInv == TypeOK /\ FileOK /\ \A p \in Processes : Holds(p)

-----------------------------------------------------------------------------
LEMMA InitIInv == Init => IInv
<1>1. Init => file.key = None /\ file.content = "absent"
      BY DEF Init, Absent
<1>2. ASSUME Init PROVE TypeOK
  <2>1. file \in [key : Processes \cup {None}, content : Contents]
        BY <1>2 DEF Init, Absent, Contents
  <2> QED BY <1>2, <2>1 DEF Init, TypeOK
<1>3. Init => FileOK
      BY <1>1 DEF Init, FileOK
<1>4. ASSUME Init, NEW p \in Processes
      PROVE  Holds(p)
      BY <1>1, <1>4, ProcessesAssumption DEF Init, Holds
<1> QED BY <1>2, <1>3, <1>4 DEF IInv

\* What is left of a file after a power loss is a file.
LEMMA RemainsType ==
    ASSUME TypeOK, PowerLoss
    PROVE  file' \in [key : Processes \cup {None}, content : Contents]
<1>1. CASE synced
      BY <1>1 DEF PowerLoss, TypeOK
<1>2. CASE ~synced
  <2>1. PICK content \in Lesser[file.content] :
              file' = IF content = "absent" THEN Absent ELSE [file EXCEPT !.content = content]
        BY <1>2 DEF PowerLoss
  <2>2. content \in Contents
        BY <2>1 DEF Lesser, TypeOK, Contents
  <2> QED BY <2>1, <2>2 DEF Absent, TypeOK, Contents
<1> QED BY <1>1, <1>2

\* Every step keeps the types.
LEMMA NextType ==
    ASSUME TypeOK, [Next]_vars
    PROVE  TypeOK'
<1>1. CASE UNCHANGED vars
      BY <1>1 DEF vars, TypeOK
<1>2. ASSUME NEW p \in Processes, Exists(p) \/ LoadOnly(p)
      PROVE  TypeOK'
      BY <1>2 DEF Exists, LoadOnly, Goto, TypeOK
<1>3. ASSUME NEW p \in Processes, Load(p)
      PROVE  TypeOK'
      BY <1>3 DEF Load, Finish, TypeOK, Outcomes
<1>4. ASSUME NEW p \in Processes, Create(p)
      PROVE  TypeOK'
  <2>1. CASE file = Absent
    <3>1. file' \in [key : Processes \cup {None}, content : Contents]
          BY <1>4, <2>1 DEF Create, Contents
    <3> QED BY <1>4, <2>1, <3>1 DEF Create, Goto, TypeOK
  <2>2. CASE file # Absent
        BY <1>4, <2>2 DEF Create, Finish, TypeOK, Outcomes
  <2> QED BY <2>1, <2>2
<1>5. ASSUME NEW p \in Processes, Write(p)
      PROVE  TypeOK'
      BY <1>5 DEF Write, Writes, Goto, TypeOK, Contents
<1>6. ASSUME NEW p \in Processes, WriteFails(p) \/ Sync(p) \/ Kill(p)
      PROVE  TypeOK'
  <2>1. file' \in [key : Processes \cup {None}, content : Contents]
        BY <1>6 DEF WriteFails, Sync, Kill, TypeOK, Contents
  <2>2. /\ synced' \in BOOLEAN
        /\ trouble' \subseteq {"kill", "disk", "power"}
        BY <1>6 DEF WriteFails, Sync, Kill, TypeOK
  <2>3. \E how \in Outcomes, key \in Processes \cup {None} : Finish(p, how, key)
        BY <1>6 DEF WriteFails, Sync, Kill, Outcomes
  <2>4. /\ pc' \in [Processes -> {"start", "create", "write", "sync", "load", "done"}]
        /\ outcome' \in [Processes -> Outcomes \cup {"running"}]
        /\ identity' \in [Processes -> Processes \cup {None}]
        BY <2>3 DEF Finish, TypeOK
  <2> QED BY <2>1, <2>2, <2>4 DEF TypeOK
<1>7. CASE PowerLoss
  <2>1. pc' \in [Processes -> {"start", "create", "write", "sync", "load", "done"}]
        BY <1>7 DEF PowerLoss, TypeOK
  <2>2. outcome' \in [Processes -> Outcomes \cup {"running"}]
        BY <1>7 DEF PowerLoss, TypeOK, Outcomes
  <2> QED BY <1>7, <2>1, <2>2, RemainsType DEF PowerLoss, TypeOK
<1> QED BY <1>1, <1>2, <1>3, <1>4, <1>5, <1>6, <1>7 DEF Next, Step

\* Two processes never hold the file at once, and nobody writes a synced one.
LEMMA OneHolder ==
    ASSUME IInv, NEW p \in Processes, pc[p] \in {"write", "sync"}
    PROVE  /\ ~synced /\ file # Absent
           /\ \A q \in Processes \ {p} : pc[q] \notin {"write", "sync"} /\ outcome[q] # "created"
BY ProcessesAssumption DEF IInv, FileOK, Holds, Absent

-----------------------------------------------------------------------------
\* The steps that leave the file alone and let their process go on or load.
LEMMA ReadingIInv ==
    ASSUME IInv, NEW p \in Processes, Exists(p) \/ LoadOnly(p) \/ Load(p), NEW q \in Processes
    PROVE  FileOK' /\ Holds(q)'
<1>1. TypeOK /\ FileOK /\ Holds(p) /\ Holds(q)
      BY DEF IInv
<1>2. UNCHANGED <<file, synced, trouble>> /\ pc[p] \in {"start", "load"}
      BY DEF Exists, LoadOnly, Load
<1>3. CASE Exists(p) \/ LoadOnly(p)
      BY <1>1, <1>2, <1>3 DEF Exists, LoadOnly, Goto, FileOK, Holds, TypeOK
<1>4. CASE Load(p)
      BY <1>1, <1>2, <1>4, ProcessesAssumption DEF Load, Finish, FileOK, Holds, TypeOK
<1> QED BY <1>3, <1>4

\* O_CREAT | O_EXCL.
LEMMA CreateIInv ==
    ASSUME IInv, NEW p \in Processes, Create(p), NEW q \in Processes
    PROVE  FileOK' /\ Holds(q)'
<1>1. TypeOK /\ FileOK /\ Holds(p) /\ Holds(q)
      BY DEF IInv
<1>2. CASE file = Absent
      BY <1>1, <1>2, ProcessesAssumption DEF Create, Goto, FileOK, Holds, TypeOK, Absent
<1>3. CASE file # Absent
      BY <1>1, <1>3, ProcessesAssumption DEF Create, Finish, FileOK, Holds, TypeOK
<1> QED BY <1>2, <1>3

\* The steps of the creator.
LEMMA WritingIInv ==
    ASSUME IInv, NEW p \in Processes, Write(p) \/ WriteFails(p) \/ Sync(p), NEW q \in Processes
    PROVE  FileOK' /\ Holds(q)'
<1>1. TypeOK /\ FileOK /\ Holds(p) /\ Holds(q)
      BY DEF IInv
<1>2. /\ ~synced /\ pc[p] \in {"write", "sync"}
      /\ q # p => pc[q] \notin {"write", "sync"} /\ outcome[q] # "created"
      BY OneHolder DEF Write, WriteFails, Sync
<1>3. file.key = p /\ p # None
      BY <1>1, <1>2, ProcessesAssumption DEF Holds
<1>4. CASE Write(p)
  <2>1. file' \in {[file EXCEPT !.content = "partial"], [file EXCEPT !.content = "full"]}
        BY <1>4 DEF Write, Writes
  <2>2. file'.key = p /\ file'.content \in {"partial", "full"}
        BY <1>1, <1>3, <2>1 DEF TypeOK
  <2> QED BY <1>1, <1>2, <1>3, <1>4, <2>2 DEF Write, Writes, Goto, FileOK, Holds, TypeOK
<1>5. CASE WriteFails(p)
  <2>1. file'.key = p /\ file'.content \in {file.content, "full"}
        BY <1>1, <1>3, <1>5 DEF WriteFails, TypeOK
  <2>2. trouble' # {}
        BY <1>5 DEF WriteFails
  <2> QED BY <1>1, <1>2, <1>3, <1>5, <2>1, <2>2 DEF WriteFails, Finish, FileOK, Holds, TypeOK
<1>6. CASE Sync(p)
      BY <1>1, <1>2, <1>3, <1>6 DEF Sync, Finish, FileOK, Holds, TypeOK
<1> QED BY <1>4, <1>5, <1>6

\* A kill leaves the file as it is.
LEMMA KillIInv ==
    ASSUME IInv, NEW p \in Processes, Kill(p), NEW q \in Processes
    PROVE  FileOK' /\ Holds(q)'
<1>1. TypeOK /\ FileOK /\ Holds(p) /\ Holds(q)
      BY DEF IInv
<1>2. trouble' # {} /\ outcome[p] # "created"
      BY <1>1 DEF Kill, Holds
<1> QED BY <1>1, <1>2 DEF Kill, Finish, FileOK, Holds, TypeOK

\* A power loss takes nothing that was synced.
LEMMA PowerIInv ==
    ASSUME IInv, PowerLoss, NEW q \in Processes
    PROVE  FileOK' /\ Holds(q)'
<1>1. TypeOK /\ FileOK /\ Holds(q)
      BY DEF IInv
<1>2. /\ "power" \in trouble' /\ UNCHANGED <<synced, identity>>
      /\ pc'[q] = IF pc[q] = "start" THEN "start" ELSE "done"
      /\ outcome'[q] = IF pc[q] \in {"start", "done"} THEN outcome[q] ELSE "killed"
      BY <1>1 DEF PowerLoss, TypeOK
<1>3. CASE synced
  <2>1. file' = file /\ file.key \in Processes
        BY <1>1, <1>3 DEF PowerLoss, FileOK, TypeOK
  <2>2. pc[file.key] = "done" /\ outcome[file.key] = "created"
        BY <1>1, <1>3, <2>1 DEF IInv, FileOK, Holds
  <2>3. outcome'[file.key] = "created"
        BY <1>1, <2>1, <2>2 DEF PowerLoss, TypeOK
  <2> QED BY <1>1, <1>2, <1>3, <2>1, <2>3 DEF FileOK, Holds
<1>4. CASE ~synced
  <2>1. PICK content \in Lesser[file.content] :
              file' = IF content = "absent" THEN Absent ELSE [file EXCEPT !.content = content]
        BY <1>4 DEF PowerLoss
  <2>2. file'.key = None <=> file'.content = "absent"
        BY <1>1, <2>1, ProcessesAssumption DEF FileOK, TypeOK, Absent, Lesser, Contents
  <2> QED BY <1>1, <1>2, <1>4, <2>2 DEF FileOK, Holds
<1> QED BY <1>3, <1>4

\* Every step keeps the invariant.
LEMMA NextIInv ==
    ASSUME IInv, [Next]_vars
    PROVE  IInv'
<1>1. TypeOK'
      BY NextType DEF IInv
<1>2. CASE UNCHANGED vars
      BY <1>1, <1>2 DEF vars, IInv, FileOK, Holds
<1>3. ASSUME NEW p \in Processes, Step(p), NEW q \in Processes
      PROVE  FileOK' /\ Holds(q)'
      BY <1>3, ReadingIInv, CreateIInv, WritingIInv, KillIInv DEF Step
<1>4. ASSUME PowerLoss, NEW q \in Processes
      PROVE  FileOK' /\ Holds(q)'
      BY <1>4, PowerIInv
<1>5. CASE PowerLoss
  <2>1. FileOK'
    <3>1. CASE Processes = {}
      <4>1. ~synced
            BY <3>1 DEF IInv, FileOK, TypeOK
      <4> QED BY <1>1, <1>5, <3>1, <4>1 DEF PowerLoss, FileOK, TypeOK, IInv, Absent, Lesser, Contents
    <3>2. CASE Processes # {}
          BY <1>4, <1>5, <3>2
    <3> QED BY <3>1, <3>2
  <2> QED BY <1>1, <1>4, <1>5, <2>1 DEF IInv
<1>6. ASSUME NEW p \in Processes, Step(p)
      PROVE  IInv'
      BY <1>1, <1>3, <1>6 DEF IInv
<1> QED BY <1>2, <1>5, <1>6 DEF Next

\* The strengthened invariant of the key file.
THEOREM Invariance == Spec => []IInv
<1>1. Init => IInv
      BY InitIInv
<1>2. IInv /\ [Next]_vars => IInv'
      BY NextIInv
<1> QED BY <1>1, <1>2, PTL DEF Spec

-----------------------------------------------------------------------------
\* The model of load_or_create keeps its types.
THEOREM TypeCorrect == Spec => []TypeOK
<1>1. IInv => TypeOK
      BY DEF IInv
<1> QED BY <1>1, Invariance, PTL

\* An identity that save() reported is in the file for good.
THEOREM CreatedStays == Spec => []CreatedIsForever
<1>1. IInv => CreatedIsForever
  <2>1. SUFFICES ASSUME IInv, NEW p \in Processes, outcome[p] = "created"
                 PROVE  file = [key |-> p, content |-> "full"]
        BY DEF CreatedIsForever
  <2>2. file.key = p /\ file.content = "full"
        BY <2>1 DEF IInv, FileOK, Holds
  <2> QED BY <2>1, <2>2 DEF IInv, TypeOK
<1> QED BY <1>1, Invariance, PTL

\* Racing processes return one identity, as long as the power stays on.
THEOREM RacersAgree == Spec => []OneIdentity
<1>1. IInv => OneIdentity
      BY DEF IInv, Holds, OneIdentity
<1> QED BY <1>1, Invariance, PTL

\* Without trouble the path holds a whole key when everybody is done.
THEOREM BlockedHasACause == Spec => []BlockedMeansTrouble
<1>1. IInv => BlockedMeansTrouble
  <2>1. SUFFICES ASSUME IInv, \A p \in Processes : pc[p] = "done", trouble = {}, file # Absent
                 PROVE  file.content = "full" /\ outcome[file.key] = "created"
        BY DEF BlockedMeansTrouble
  <2>2. file.key # None
        BY <2>1 DEF IInv, TypeOK, FileOK, Absent
  <2>3. file.key \in Processes
        BY <2>1, <2>2 DEF IInv, TypeOK
  <2>4. outcome[file.key] = "created"
        BY <2>1, <2>3 DEF IInv, Holds
  <2> QED BY <2>1, <2>3, <2>4 DEF IInv, Holds, FileOK
<1> QED BY <1>1, Invariance, PTL

\* No step of a process gives the file another key or takes away its content.
THEOREM NothingIsClobbered == Spec => NeverClobbered
<1>1. IInv /\ [Next]_vars =>
        [file # Absent /\ trouble' \ trouble # {"power"} =>
            /\ file'.key = file.key
            /\ file.content = "full" => file' = file]_vars
  <2>1. SUFFICES ASSUME IInv, Next, file # Absent, trouble' \ trouble # {"power"}
                 PROVE  file'.key = file.key /\ (file.content = "full" => file' = file)
        OBVIOUS
  <2>2. ~PowerLoss
        BY <2>1 DEF PowerLoss
  <2>3. PICK p \in Processes : Step(p)
        BY <2>1, <2>2 DEF Next
  <2>4. TypeOK /\ Holds(p)
        BY <2>1 DEF IInv
  <2>5. CASE Exists(p) \/ LoadOnly(p) \/ Load(p) \/ Sync(p) \/ Kill(p)
        BY <2>5 DEF Exists, LoadOnly, Load, Sync, Kill
  <2>6. CASE Create(p)
        BY <2>1, <2>6 DEF Create
  <2>7. CASE Write(p)
        BY <2>4, <2>7 DEF Write, Writes, Holds, TypeOK
  <2>8. CASE WriteFails(p)
        BY <2>4, <2>8 DEF WriteFails, TypeOK
  <2> QED BY <2>3, <2>5, <2>6, <2>7, <2>8 DEF Step
<1> QED BY <1>1, Invariance, PTL DEF Spec, NeverClobbered
=============================================================================
