------------------------------ MODULE Say_proofs ------------------------------
(* Proofs about Say, for any number of posts and files and any clock.          *)
EXTENDS Say, TLAPS

-----------------------------------------------------------------------------
(* Types. *)

LEMMA TypeInit == Init => TypeOK
BY PostAssumption DEF Init, TypeOK, inputs, Torn

LEMMA TypeStep == TypeOK /\ [Next]_vars => TypeOK'
<1> SUFFICES ASSUME TypeOK, [Next]_vars PROVE TypeOK'
    OBVIOUS
<1>1. CASE Clock
      BY <1>1 DEF Clock, TypeOK, inputs, disk
<1>2. ASSUME NEW p \in Posts, Process(p) PROVE TypeOK'
  <2>1. CASE Check(p) \/ Refused(p) \/ GiveUp(p) \/ Posted(p) \/ Kill(p)
        BY <2>1 DEF Check, Refused, GiveUp, Posted, Kill, Finish, Goto, inputs, disk, TypeOK
  <2>2. CASE Sign(p)
        BY <2>2 DEF Sign, Nonce, Goto, inputs, disk, TypeOK
  <2>3. CASE Open(p)
    <3>1. raced' \subseteq SUBSET Posts
          BY <2>3 DEF Open, Rivals, TypeOK
    <3>2. file' \in [Paths -> {None, "old"} \cup Torn \cup Posts]
          BY <2>3 DEF Open, Torn, TypeOK
    <3> QED BY <2>3, <3>1, <3>2 DEF Open, Goto, inputs, TypeOK
  <2>4. CASE Store(p) \/ StoreFails(p)
    <3>1. file' \in [Paths -> {None, "old"} \cup Torn \cup Posts]
      <4> DEFINE Content == {None, "old"} \cup Torn \cup Posts
      <4>0. CASE UNCHANGED file
            BY <4>0 DEF TypeOK
      <4>. SUFFICES ASSUME ~UNCHANGED file PROVE file' \in [Paths -> Content]
            BY <4>0
      <4>1. PICK c \in {"partial"} \cup Contents(p) : file' = [file EXCEPT ![Record[p]] = c]
            BY <2>4 DEF Store, StoreFails
      <4>2. c \in Content
            BY DEF Contents, Torn
      <4>3. file \in [Paths -> Content]
            BY DEF TypeOK
      <4> HIDE DEF Content
      <4>4. file' \in [Paths -> Content]
            BY <4>1, <4>2, <4>3
      <4> QED BY <4>4 DEF Content
    <3>2. /\ pc' \in [Posts -> {"check", "sign", "wait", "open", "write", "done"}]
          /\ outcome' \in [Posts -> {"none", "exists", "refused", "unknown", "posted",
                                    "recorded", "unrecorded", "killed"}]
          BY <2>4 DEF Store, StoreFails, Finish, Goto, TypeOK
    <3> QED BY <2>4, <3>1, <3>2 DEF Store, StoreFails, inputs, TypeOK
  <2> QED BY <1>2, <2>1, <2>2, <2>3, <2>4 DEF Process
<1>3. ASSUME NEW p \in Posts, Service(p) PROVE TypeOK'
      BY <1>3 DEF Service, Execute, Stale, Decline, inputs, disk, TypeOK
<1>4. CASE PowerLoss
  <2>1. file' \in [Paths -> {None, "old"} \cup Torn \cup Posts]
    <3>1. PICK gone \in SUBSET Unsynced, left \in [Paths -> Torn \cup {"before"}] :
              file' = [path \in Paths |->
                         IF path \notin gone THEN file[path]
                         ELSE IF left[path] = "before" THEN before[path] ELSE left[path]]
          BY <1>4 DEF PowerLoss
    <3> QED BY <3>1 DEF TypeOK
  <2> QED BY <1>4, <2>1 DEF PowerLoss, inputs, TypeOK
<1>5. CASE UNCHANGED vars
      BY <1>5 DEF vars, inputs, disk, TypeOK
<1> QED BY <1>1, <1>2, <1>3, <1>4, <1>5 DEF Next

\* Types are kept.
THEOREM TypeCorrect == Spec => []TypeOK
BY TypeInit, TypeStep, PTL DEF Spec

-----------------------------------------------------------------------------
(* What a process reports. *)

\* Where a process is tells what became of its post.
Reached ==
    \A p \in Posts :
        /\ pc[p] # "done" => outcome[p] = "none"
        /\ pc[p] \in {"check", "sign"} => request[p] = "none"
        /\ pc[p] \in {"open", "write"} => request[p] = "executed" /\ Record[p] # None
        /\ outcome[p] = "recorded" => Record[p] # None

\* The service's counter is the largest nonce it executed.
Counted ==
    /\ \A p \in Posts : request[p] = "executed" => nonce[p] <= counter
    /\ counter > 0 => \E p \in Posts : request[p] = "executed" /\ nonce[p] = counter

\* Nonces are of the clock, so above the counter's first value.
Stamped == \A p \in Posts : request[p] # "none" => nonce[p] > 0

SayInv == Reached /\ Counted /\ Stamped /\ SayIsTrue

LEMMA SayInit == Init => SayInv
BY DEF Init, SayInv, Reached, Counted, Stamped, SayIsTrue

\* A request that was executed or refused stays so, with its nonce.
LEMMA SayStep == TypeOK /\ SayInv /\ [Next]_vars => SayInv'
<1> SUFFICES ASSUME TypeOK, SayInv, [Next]_vars PROVE SayInv'
    OBVIOUS
<1>1. ASSUME UNCHANGED <<pc, nonce, counter, request, outcome>> PROVE SayInv'
      BY <1>1 DEF SayInv, Reached, Counted, Stamped, SayIsTrue
<1>2. ASSUME NEW p \in Posts, Process(p) PROVE SayInv'
  <2>1. CASE Sign(p)
    <3>1. pc[p] = "sign" /\ request[p] = "none" /\ clock > 0 /\ outcome[p] = "none"
          BY <2>1 DEF Sign, SayInv, Reached, TypeOK
    <3>2. /\ \A q \in Posts : request'[q] = IF q = p THEN "sent" ELSE request[q]
          /\ \A q \in Posts : nonce'[q] = IF q = p THEN clock ELSE nonce[q]
          /\ \A q \in Posts : pc'[q] = IF q = p THEN "wait" ELSE pc[q]
          /\ UNCHANGED <<counter, outcome>>
          BY <2>1 DEF Sign, Nonce, Goto, TypeOK
    <3>3. Reached'
          BY <3>1, <3>2 DEF SayInv, Reached
    <3>4. Counted' /\ Stamped'
          BY <3>1, <3>2 DEF SayInv, Counted, Stamped
    <3>5. SayIsTrue'
          BY <3>1, <3>2 DEF SayInv, SayIsTrue
    <3> QED BY <3>3, <3>4, <3>5 DEF SayInv
  <2>2. CASE ~Sign(p)
    <3>1. UNCHANGED <<nonce, counter, request>>
          BY <1>2, <2>2 DEF Process, Check, Refused, GiveUp, Posted, Open, Store, StoreFails, Kill
    <3>2. \A q \in Posts \ {p} : pc'[q] = pc[q] /\ outcome'[q] = outcome[q]
          BY <1>2, <2>2 DEF Process, Check, Refused, GiveUp, Posted, Open, Store, StoreFails, Kill,
                            Finish, Goto, TypeOK
    <3>3. /\ pc'[p] # "done" => outcome'[p] = "none"
          /\ pc'[p] \in {"check", "sign"} => request[p] = "none"
          /\ pc'[p] \in {"open", "write"} => request[p] = "executed" /\ Record[p] # None
          /\ outcome'[p] = "recorded" => Record[p] # None
          BY <1>2, <2>2 DEF Process, Check, Refused, GiveUp, Posted, Answered, Open, Store,
                            StoreFails, Kill, Finish, Goto, TypeOK, SayInv, Reached
    <3>4. /\ outcome'[p] \in {"posted", "recorded", "unrecorded"} => request[p] = "executed"
          /\ outcome'[p] = "refused" => request[p] \in {"stale", "declined"}
          /\ outcome'[p] = "exists" => request[p] = "none"
          BY <1>2, <2>2 DEF Process, Check, Refused, GiveUp, Posted, Answered, Open, Store,
                            StoreFails, Kill, Finish, Goto, TypeOK, SayInv, Reached, SayIsTrue
    <3>5. Reached'
          BY <3>1, <3>2, <3>3 DEF SayInv, Reached
    <3>6. SayIsTrue'
          BY <3>1, <3>2, <3>4 DEF SayInv, SayIsTrue
    <3> QED BY <3>1, <3>5, <3>6 DEF SayInv, Counted, Stamped
  <2> QED BY <2>1, <2>2
<1>3. ASSUME NEW p \in Posts, Service(p) PROVE SayInv'
  <2>1. PICK answer \in {"executed", "stale", "declined"} :
            /\ request' = [request EXCEPT ![p] = answer]
            /\ answer = "executed" => nonce[p] > counter /\ counter' = nonce[p]
            /\ answer # "executed" => counter' = counter
            /\ answer = "stale" => nonce[p] <= counter
        BY <1>3 DEF Service, Execute, Stale, Decline
  <2>2. request[p] = "sent" /\ UNCHANGED <<pc, nonce, outcome>>
        BY <1>3 DEF Service, Execute, Stale, Decline
  <2>3. \A q \in Posts : request'[q] = IF q = p THEN answer ELSE request[q]
        BY <2>1 DEF TypeOK
  <2>4. counter \in Nat /\ counter' \in Nat /\ \A q \in Posts : nonce[q] \in Nat
        BY <2>1, PostAssumption DEF TypeOK
  <2>5. Reached' /\ Stamped'
        BY <2>2, <2>3 DEF SayInv, Reached, Stamped
  <2>6. Counted'
    <3>1. CASE answer = "executed"
          BY <2>1, <2>2, <2>3, <2>4, <3>1 DEF SayInv, Counted
    <3>2. CASE answer # "executed"
          BY <2>1, <2>2, <2>3, <2>4, <3>2 DEF SayInv, Counted
    <3> QED BY <3>1, <3>2
  <2>7. answer = "stale" => \E q \in Posts \ {p} : request[q] = "executed" /\ nonce[q] >= nonce[p]
        BY <2>1, <2>2, <2>4 DEF SayInv, Counted, Stamped
  <2>8. SayIsTrue'
    <3>1. \A q \in Posts : request'[q] = "stale" =>
              \E o \in Posts \ {q} : request'[o] = "executed" /\ nonce'[o] >= nonce'[q]
          BY <2>2, <2>3, <2>7 DEF SayInv, SayIsTrue
    <3> QED BY <2>2, <2>3, <3>1 DEF SayInv, SayIsTrue
  <2> QED BY <2>5, <2>6, <2>8 DEF SayInv
<1>4. CASE PowerLoss
  <2>1. /\ UNCHANGED <<nonce, counter, request>>
        /\ \A p \in Posts : \/ pc'[p] = pc[p] /\ outcome'[p] = outcome[p]
                            \/ pc'[p] = "done" /\ outcome'[p] = "killed"
        BY <1>4 DEF PowerLoss, TypeOK
  <2> QED BY <2>1 DEF SayInv, Reached, Counted, Stamped, SayIsTrue
<1> QED BY <1>1, <1>2, <1>3, <1>4 DEF Next, Clock, vars

\* Reports are true of what happens, also later.
THEOREM ReportsAreTrue == Spec => []SayIsTrue
<1>1. SayInv => SayIsTrue
      BY DEF SayInv
<1> QED BY <1>1, SayInit, SayStep, TypeCorrect, PTL DEF Spec

\* A process that has gone past its answer has been executed.
LEMMA SayInvHolds == Spec => []SayInv
BY SayInit, SayStep, TypeCorrect, PTL DEF Spec

-----------------------------------------------------------------------------
(* What is in the files. *)

LEMMA ProofInit == Init => RecordIsProof
BY ContentAssumption DEF Init, RecordIsProof, Torn

LEMMA ProofStep == TypeOK /\ SayInv /\ RecordIsProof /\ [Next]_vars => RecordIsProof'
<1> SUFFICES ASSUME TypeOK, SayInv, RecordIsProof, [Next]_vars PROVE RecordIsProof'
    OBVIOUS
<1>1. \A p \in Posts : request[p] = "executed" => request'[p] = "executed"
  <2>1. CASE \E p \in Posts : Sign(p)
        BY <2>1 DEF Sign, SayInv, Reached, TypeOK
  <2>2. CASE \E p \in Posts : Service(p)
        BY <2>2 DEF Service, Execute, Stale, Decline, TypeOK
  <2>3. CASE UNCHANGED request
        BY <2>3
  <2> QED BY <2>1, <2>2, <2>3 DEF Next, Clock, PowerLoss, Process, Check, Refused, GiveUp, Posted, Open,
                                  Store, StoreFails, Kill, vars
<1>2. CASE UNCHANGED file
      BY <1>1, <1>2 DEF RecordIsProof, TypeOK
<1>3. ASSUME NEW p \in Posts, Open(p) \/ Store(p) \/ StoreFails(p), ~UNCHANGED file
      PROVE  RecordIsProof'
  <2>1. request[p] = "executed"
        BY <1>3 DEF Open, Store, StoreFails, SayInv, Reached
  <2>2. PICK c \in Torn \cup {p} : file' = [file EXCEPT ![Record[p]] = c]
        BY <1>3 DEF Open, Store, StoreFails, Contents, Torn
  <2>3. \A path \in Paths : file'[path] = IF path = Record[p] THEN c ELSE file[path]
        BY <2>2 DEF TypeOK
  <2>4. c \in Posts => c = p
        BY ContentAssumption
  <2> QED BY <1>1, <2>1, <2>3, <2>4 DEF RecordIsProof
<1>4. CASE PowerLoss
  <2>1. \A path \in Paths : file'[path] = file[path] \/ file'[path] \in {before[path]} \cup Torn
        BY <1>4 DEF PowerLoss
  <2>2. \A path \in Paths : {before[path]} \cup Torn \subseteq {None, "old"} \cup Torn
        BY DEF TypeOK
  <2> QED BY <1>1, <2>1, <2>2, ContentAssumption DEF RecordIsProof
<1> QED BY <1>2, <1>3, <1>4 DEF Next, Clock, Process, Service, Execute, Stale, Decline, Check,
                                Sign, Refused, GiveUp, Posted, Kill, disk, vars

\* A record proves a post that was made.
THEOREM RecordsAreProof == Spec => []RecordIsProof
BY ProofInit, ProofStep, TypeCorrect, SayInvHolds, PTL DEF Spec

-----------------------------------------------------------------------------
(* What stays in the files. *)

\* A path of an earlier file that no command forces.
Kept(path) == before[path] = "old" /\ \A p \in forced : Record[p] # path

\* Nobody gets past its look at such a path.
Barred == \A p \in Posts : Record[p] \in Paths /\ Kept(Record[p]) => pc[p] \in {"check", "done"}

\* Who comes by the path once it was opened, with the power on, has raced or
\* forces.
Opened ==
    \A p \in Posts : (pc[p] = "write" \/ (outcome[p] = "recorded" /\ p \notin lost)) =>
        /\ file[Record[p]] # None
        /\ \A q \in Rivals(p) : pc[q] \notin {"check", "done"} => q \in forced \/ {p, q} \in raced

KeepInv == Barred /\ Opened /\ ProofIsKept

LEMMA KeepInit == Init => KeepInv
BY DEF Init, KeepInv, Barred, Opened, ProofIsKept

LEMMA KeepStep == TypeOK /\ SayInv /\ KeepInv /\ [Next]_vars => KeepInv'
<1> SUFFICES ASSUME TypeOK, SayInv, KeepInv, [Next]_vars PROVE KeepInv'
    OBVIOUS
<1>0. \A p \in Posts : Record[p] # None => Record[p] \in Paths
      BY PostAssumption
<1>1. ASSUME UNCHANGED <<forced, before, file, raced, lost, pc, outcome>> PROVE KeepInv'
      BY <1>1 DEF KeepInv, Barred, Opened, ProofIsKept, Kept, Rivals
<1>2. ASSUME NEW p \in Posts, Check(p) PROVE KeepInv'
  <2>1. UNCHANGED <<forced, before, file, raced, lost>>
        BY <1>2 DEF Check, inputs, disk
  <2>2. /\ \A q \in Posts \ {p} : pc'[q] = pc[q] /\ outcome'[q] = outcome[q]
        /\ pc'[p] \in {"sign", "done"} /\ outcome'[p] \in {"none", "exists"}
        BY <1>2 DEF Check, Finish, Goto, TypeOK, SayInv, Reached
  <2>3. pc'[p] = "sign" /\ Record[p] # None /\ p \notin forced => file[Record[p]] = None
        BY <1>2 DEF Check, Exists, Finish, Goto, TypeOK
  <2>4. Barred'
    <3>1. ASSUME Record[p] \in Paths, Kept(Record[p]) PROVE pc'[p] = "done"
      <4>1. file[Record[p]] = "old" /\ p \notin forced
            BY <3>1 DEF KeepInv, ProofIsKept, Kept
      <4> QED BY <2>2, <2>3, <3>1, <4>1, ContentAssumption, PostAssumption
    <3> QED BY <2>1, <2>2, <3>1 DEF KeepInv, Barred, Kept
  <2>5. Opened'
    <3>1. ASSUME NEW q \in Posts,
                 pc'[q] = "write" \/ (outcome'[q] = "recorded" /\ q \notin lost)
          PROVE  /\ file[Record[q]] # None
                 /\ \A o \in Rivals(q) :
                        pc'[o] \notin {"check", "done"} => o \in forced \/ {q, o} \in raced
      <4>1. q # p /\ (pc[q] = "write" \/ (outcome[q] = "recorded" /\ q \notin lost))
            BY <2>2, <3>1
      <4>2. Record[q] # None /\ file[Record[q]] # None
            BY <4>1 DEF KeepInv, Opened, SayInv, Reached
      <4>3. p \in Rivals(q) => pc'[p] = "done" \/ p \in forced
            BY <2>2, <2>3, <4>2 DEF Rivals
      <4> QED BY <2>2, <4>1, <4>2, <4>3 DEF KeepInv, Opened, Rivals
    <3> QED BY <2>1, <3>1 DEF Opened, Rivals
  <2>6. ProofIsKept'
        BY <2>1, <2>2 DEF KeepInv, ProofIsKept, Rivals
  <2> QED BY <2>4, <2>5, <2>6 DEF KeepInv
<1>3. ASSUME NEW p \in Posts,
             \/ Sign(p) \/ Refused(p) \/ GiveUp(p) \/ Posted(p) \/ Kill(p)
             \/ (StoreFails(p) /\ UNCHANGED file)
      PROVE  KeepInv'
  <2>1. UNCHANGED <<forced, before, file, raced, lost>>
        BY <1>3 DEF Sign, Refused, GiveUp, Posted, StoreFails, Kill, inputs, disk
  <2>2. /\ \A q \in Posts \ {p} : pc'[q] = pc[q] /\ outcome'[q] = outcome[q]
        /\ pc'[p] # "write" /\ outcome'[p] # "recorded"
        /\ pc'[p] \notin {"check", "done"} => pc[p] \notin {"check", "done"}
        BY <1>3 DEF Sign, Refused, GiveUp, Posted, Answered, StoreFails, Kill, Finish, Goto,
                    TypeOK, SayInv, Reached
  <2>3. Barred'
        BY <2>1, <2>2 DEF KeepInv, Barred, Kept, TypeOK
  <2>4. Opened'
        BY <2>1, <2>2 DEF KeepInv, Opened, Rivals
  <2>5. ProofIsKept'
        BY <2>1, <2>2 DEF KeepInv, ProofIsKept, Rivals
  <2> QED BY <2>3, <2>4, <2>5 DEF KeepInv
<1>4. ASSUME NEW p \in Posts, Open(p) \/ Store(p) \/ (StoreFails(p) /\ ~UNCHANGED file)
      PROVE  KeepInv'
  <2>1. UNCHANGED <<forced, before, lost>> /\ raced \subseteq raced'
        BY <1>4 DEF Open, Store, StoreFails, inputs
  <2>2. /\ Record[p] \in Paths /\ pc[p] \in {"open", "write"} /\ outcome[p] = "none"
        /\ \A q \in Posts \ {p} : pc'[q] = pc[q] /\ outcome'[q] = outcome[q]
        /\ pc'[p] \in {"write", "done"}
        BY <1>0, <1>4 DEF Open, Store, StoreFails, Finish, Goto, TypeOK, SayInv, Reached
  <2>3. PICK c \in Torn \cup {p} : file' = [file EXCEPT ![Record[p]] = c]
        BY <1>4 DEF Open, Store, StoreFails, Contents, Torn
  <2>4. \A path \in Paths : file'[path] = IF path = Record[p] THEN c ELSE file[path]
        BY <2>3 DEF TypeOK
  <2>5. c # None /\ ~Kept(Record[p])
        BY <2>2, ContentAssumption DEF KeepInv, Barred
  <2>6. \A q \in Rivals(p) : pc'[q] \notin {"check", "done"} => q \in forced \/ {p, q} \in raced'
    <3>1. CASE Open(p)
          BY <2>2, <3>1 DEF Open, Rivals
    <3>2. CASE ~Open(p)
      <4>1. pc[p] = "write" /\ raced' = raced
        <5>1. CASE Store(p)
              BY <5>1 DEF Store
        <5>2. CASE StoreFails(p) /\ ~UNCHANGED file
              BY <5>2 DEF StoreFails
        <5> QED BY <1>4, <3>2, <5>1, <5>2
      <4> QED BY <2>2, <4>1 DEF KeepInv, Opened, Rivals
    <3> QED BY <3>1, <3>2
  <2>7. Barred'
        BY <2>1, <2>2, <2>5 DEF KeepInv, Barred, Kept
  <2>8. Opened'
    <3>1. ASSUME NEW q \in Posts,
                 pc'[q] = "write" \/ (outcome'[q] = "recorded" /\ q \notin lost)
          PROVE  /\ file'[Record[q]] # None
                 /\ \A o \in Rivals(q) :
                        pc'[o] \notin {"check", "done"} => o \in forced \/ {q, o} \in raced'
      <4>1. CASE q = p
            BY <2>2, <2>4, <2>5, <2>6, <4>1
      <4>2. CASE q # p
        <5>1. /\ Record[q] \in Paths
              /\ pc[q] = "write" \/ (outcome[q] = "recorded" /\ q \notin lost)
              BY <1>0, <2>2, <3>1, <4>2 DEF SayInv, Reached
        <5>2. file'[Record[q]] # None
              BY <2>4, <2>5, <5>1 DEF KeepInv, Opened
        <5>3. \A o \in Rivals(q) :
                  pc'[o] \notin {"check", "done"} => pc[o] \notin {"check", "done"}
              BY <2>2 DEF Rivals
        <5> QED BY <2>1, <5>1, <5>2, <5>3 DEF KeepInv, Opened
      <4> QED BY <4>1, <4>2
    <3> QED BY <2>1, <3>1 DEF Opened, Rivals
  <2>9. ProofIsKept'
    <3>1. \A path \in Paths : Kept(path) => file'[path] = "old"
          BY <2>4, <2>5 DEF KeepInv, ProofIsKept, Kept
    <3>2. ASSUME NEW q \in Posts, outcome'[q] = "recorded", q \notin lost, file'[Record[q]] # q
          PROVE  \E o \in Rivals(q) : o \in forced \/ {q, o} \in raced'
      <4>1. CASE q = p
        <5>1. Store(p) /\ c \in Contents(p)
          <6>1. outcome'[p] = "recorded" /\ file'[Record[p]] = c
                BY <2>2, <2>4, <3>2, <4>1
          <6>2. ~Open(p) /\ ~StoreFails(p)
                BY <2>2, <6>1 DEF Open, StoreFails, Finish, TypeOK
          <6>3. \E d \in Contents(p) : file' = [file EXCEPT ![Record[p]] = d]
                BY <1>4, <2>2, <6>1, <6>2 DEF Store
          <6> QED BY <1>4, <2>2, <6>1, <6>2, <6>3 DEF TypeOK
        <5>2. c # p
              BY <2>2, <2>4, <3>2, <4>1
        <5> QED BY <2>1, <4>1, <5>1, <5>2 DEF Contents
      <4>2. CASE q # p
        <5>1. outcome[q] = "recorded" /\ Record[q] \in Paths
              BY <1>0, <2>2, <3>2, <4>2 DEF SayInv, Reached
        <5>2. CASE Record[q] = Record[p]
          <6>1. p \in Rivals(q) /\ pc[p] \notin {"check", "done"}
                BY <2>2, <4>2, <5>2 DEF Rivals
          <6>2. p \in forced \/ {q, p} \in raced
                BY <3>2, <5>1, <6>1 DEF KeepInv, Opened
          <6> QED BY <2>1, <6>1, <6>2
        <5>3. CASE Record[q] # Record[p]
              BY <2>1, <2>4, <3>2, <5>1, <5>3 DEF KeepInv, ProofIsKept
        <5> QED BY <5>2, <5>3
      <4> QED BY <4>1, <4>2
    <3> QED BY <2>1, <3>1, <3>2 DEF ProofIsKept, Kept, Rivals
  <2> QED BY <2>7, <2>8, <2>9 DEF KeepInv
<1>5. CASE PowerLoss
  <2>1. PICK gone \in SUBSET Unsynced :
            /\ \A path \in Paths \ gone : file'[path] = file[path]
            /\ lost' = lost \cup {p \in Posts : outcome[p] = "recorded" /\ Record[p] \in gone}
        BY <1>5 DEF PowerLoss
  <2>2. /\ UNCHANGED <<forced, before, raced>>
        /\ \A p \in Posts : pc'[p] \in {"check", "done"}
        /\ \A p \in Posts : outcome'[p] = "recorded" => outcome[p] = "recorded"
        BY <1>5 DEF PowerLoss, inputs
  <2>3. ASSUME NEW p \in Posts, outcome'[p] = "recorded", p \notin lost'
        PROVE  /\ outcome[p] = "recorded" /\ p \notin lost
               /\ file'[Record[p]] = file[Record[p]]
        BY <1>0, <2>1, <2>2, <2>3 DEF SayInv, Reached
  <2>4. Barred'
        BY <2>2 DEF Barred
  <2>5. Opened'
        BY <2>2, <2>3 DEF KeepInv, Opened, Rivals
  <2>6. ProofIsKept'
    <3>1. \A path \in Paths : Kept(path) => file'[path] = "old"
          BY <2>1 DEF KeepInv, ProofIsKept, Kept, Unsynced
    <3>2. ASSUME NEW p \in Posts, outcome'[p] = "recorded", p \notin lost', file'[Record[p]] # p
          PROVE  \E q \in Rivals(p) : q \in forced \/ {p, q} \in raced
          BY <2>3, <3>2 DEF KeepInv, ProofIsKept
    <3> QED BY <2>2, <3>1, <3>2 DEF ProofIsKept, Kept, Rivals
  <2> QED BY <2>4, <2>5, <2>6 DEF KeepInv
<1> QED BY <1>1, <1>2, <1>3, <1>4, <1>5 DEF Next, Clock, Process, Service, Execute, Stale,
                                            Decline, inputs, disk, vars

\* No proof is overwritten but by --force or in a race, or lost with the power.
THEOREM ProofsAreKept == Spec => []ProofIsKept
<1>1. KeepInv => ProofIsKept
      BY DEF KeepInv
<1> QED BY <1>1, KeepInit, KeepStep, TypeCorrect, SayInvHolds, PTL DEF Spec
=============================================================================
