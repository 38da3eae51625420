------------------------- MODULE NoteUpdate_proofs -------------------------
(***************************************************************************)
(* Proofs about NoteUpdate, for any calls, values, mutate functions and    *)
(* number of attempts.                                                     *)
(*                                                                         *)
(* IInv ties, call by call, the request to the place in the loop and to    *)
(* what was executed (Tied), and the lost attempts to the changes of the   *)
(* note they were lost to (Lost): a note that differs from what was read   *)
(* has changed since the read, once more than the lost attempts account    *)
(* for.                                                                    *)
(***************************************************************************)
EXTENDS NoteUpdate, TLAPS

Tied(c) ==
    /\ pc[c] = "done" <=> outcome[c] # "running"
    /\ pc[c] \in {"read", "write"} => request[c] = "none"
    /\ pc[c] = "wait" => request[c] # "none"
    /\ c \in applied <=> request[c] = "written"
    /\ outcome[c] = "ok" => request[c] = "written"
    /\ outcome[c] = "conflict" => request[c] = "none"
    /\ outcome[c] = "failed" => request[c] \in {"none", "declined"}
    /\ request[c] = "sent" => CanWrite(c)

Lost(c) ==
    /\ pc[c] # "done" => attempt[c] < Attempts
    /\ attempt[c] <= foreign[c]
    /\ (pc[c] = "write" \/ request[c] = "sent") /\ pc[c] # "done" /\ value # current[c]
          => attempt[c] + 1 <= foreign[c]
    /\ request[c] = "conflict" /\ pc[c] # "done" => attempt[c] + 1 <= foreign[c]
    /\ outcome[c] = "conflict" => Attempts <= foreign[c]

IInv == TypeOK /\ \A c \in Calls : Tied(c) /\ Lost(c)

LEMMA InitIInv == Init => IInv
BY AttemptsAssumption DEF Init, IInv, TypeOK, Tied, Lost

\* A change of the note counts once for every other call, up to Attempts.
LEMMA ChangesCount ==
    ASSUME TypeOK, NEW v \in Values \cup {None}, NEW by, Changes(v, by)
    PROVE  /\ value' = v
           /\ foreign' \in [Calls -> 0 .. Attempts]
           /\ \A c \in Calls : foreign[c] <= foreign'[c]
           /\ \A c \in Calls : c # by /\ v # value /\ foreign[c] < Attempts
                                  => foreign'[c] = foreign[c] + 1
BY AttemptsAssumption DEF Changes, TypeOK

\* What a request on its way would store.
LEMMA SentValue ==
    ASSUME IInv, NEW c \in Calls, request[c] = "sent"
    PROVE  Mutate[c][current[c]] \in Values
<1>1. current[c] \in Values \cup {None}
      BY DEF IInv, TypeOK
<1>2. Mutate[c] \in [Values \cup {None} -> Values \cup {Refused}]
      BY MutateAssumption
<1>3. Mutate[c][current[c]] # Refused
      BY DEF IInv, Tied, CanWrite
<1> QED BY <1>1, <1>2, <1>3

LEMMA NextType ==
    ASSUME IInv, [Next]_vars
    PROVE  TypeOK'
<1> USE AttemptsAssumption, MutateAssumption DEF IInv, TypeOK, Outcomes, Answers
<1>1. CASE UNCHANGED vars
      BY <1>1 DEF vars
<1>2. ASSUME NEW c \in Calls, Caller(c)
      PROVE  TypeOK'
  <2>1. CASE Retry(c)
    <3>1. attempt[c] < Attempts
          BY <2>1 DEF Retry, Lost
    <3>2. attempt' \in [Calls -> 0 .. Attempts]
          BY <2>1, <3>1 DEF Retry
    <3>3. pc' \in [Calls -> {"read", "write", "wait", "done"}]
          BY <2>1 DEF Retry, Finish
    <3>4. outcome' \in [Calls -> Outcomes \cup {"running"}]
          BY <2>1 DEF Retry, Finish
    <3>5. request' \in [Calls -> Answers \cup {"none", "sent"}]
          BY <2>1 DEF Retry
    <3> QED BY <2>1, <3>2, <3>3, <3>4, <3>5 DEF Retry
  <2>2. CASE Read(c)
        BY <2>2 DEF Read
  <2>3. CASE Write(c)
        BY <2>3 DEF Write
  <2>4. CASE ReadFails(c) \/ Refuse(c) \/ Return(c) \/ Fail(c) \/ GiveUp(c)
    <3>1. PICK how \in Outcomes : Finish(c, how)
          BY <2>4 DEF ReadFails, Refuse, Return, Fail, GiveUp
    <3>2. UNCHANGED <<value, attempt, current, request, applied, foreign>>
          BY <2>4 DEF ReadFails, Refuse, Return, Fail, GiveUp
    <3> QED BY <3>1, <3>2 DEF Finish
  <2> QED BY <1>2, <2>1, <2>2, <2>3, <2>4 DEF Caller
<1>3. ASSUME NEW c \in Calls, Service(c)
      PROVE  TypeOK'
  <2>1. CASE Execute(c)
    <3>1. Mutate[c][current[c]] \in Values
          BY <2>1, SentValue DEF Execute
    <3> QED BY <2>1, <3>1, ChangesCount DEF Execute
  <2> QED BY <1>3, <2>1 DEF Service, Conflict, Decline
<1>4. ASSUME NEW v \in Values \cup {None}, Overwrite(v)
      PROVE  TypeOK'
      BY <1>4, ChangesCount DEF Overwrite
<1> QED BY <1>1, <1>2, <1>3, <1>4 DEF Next

\* A step that leaves the variables of a call alone leaves what is known of
\* it alone, if the note is the same or one more change is counted.
LEMMA Others ==
    ASSUME IInv, NEW c \in Calls, TypeOK',
           pc'[c] = pc[c], attempt'[c] = attempt[c], current'[c] = current[c],
           request'[c] = request[c], outcome'[c] = outcome[c],
           c \in applied' <=> c \in applied,
           foreign[c] <= foreign'[c],
           value' = value \/ foreign[c] = Attempts \/ foreign'[c] = foreign[c] + 1
    PROVE  Tied(c)' /\ Lost(c)'
<1>1. Tied(c)'
      BY DEF IInv, Tied, CanWrite
<1>2. attempt[c] \in Nat /\ foreign[c] \in Nat /\ foreign'[c] \in Nat
      BY AttemptsAssumption DEF IInv, TypeOK
<1>3. Lost(c)'
      BY <1>2, AttemptsAssumption DEF IInv, Lost
<1> QED BY <1>1, <1>3

LEMMA CallerStep ==
    ASSUME IInv, NEW c \in Calls, Caller(c), TypeOK'
    PROVE  Tied(c)' /\ Lost(c)'
<1> USE AttemptsAssumption DEF IInv, TypeOK, Outcomes, Answers, Tied, Lost
<1>1. attempt[c] \in Nat /\ foreign[c] \in Nat
      OBVIOUS
<1>2. CASE Read(c)
      BY <1>1, <1>2 DEF Read, CanWrite
<1>3. CASE ReadFails(c)
      BY <1>1, <1>3 DEF ReadFails, Finish, CanWrite
<1>4. CASE Write(c)
      BY <1>1, <1>4 DEF Write, CanWrite
<1>5. CASE Refuse(c)
      BY <1>1, <1>5 DEF Refuse, Finish, CanWrite
<1>6. CASE Return(c)
      BY <1>1, <1>6 DEF Return, Finish, CanWrite
<1>7. CASE Retry(c)
      BY <1>1, <1>7 DEF Retry, Finish, CanWrite
<1>8. CASE Fail(c)
      BY <1>1, <1>8 DEF Fail, Finish, CanWrite
<1>9. CASE GiveUp(c)
      BY <1>1, <1>9 DEF GiveUp, Finish, CanWrite
<1> QED BY <1>2, <1>3, <1>4, <1>5, <1>6, <1>7, <1>8, <1>9 DEF Caller

LEMMA ServiceStep ==
    ASSUME IInv, NEW c \in Calls, Service(c), TypeOK'
    PROVE  Tied(c)' /\ Lost(c)'
<1> USE AttemptsAssumption DEF IInv, TypeOK, Outcomes, Answers, Tied, Lost
<1>1. attempt[c] \in Nat /\ foreign[c] \in Nat
      OBVIOUS
<1>2. CASE Execute(c)
  <2>1. foreign'[c] = foreign[c]
        BY <1>2 DEF Execute, Changes
  <2> QED BY <1>1, <1>2, <2>1 DEF Execute, CanWrite
<1>3. CASE Conflict(c)
      BY <1>1, <1>3 DEF Conflict, CanWrite
<1>4. CASE Decline(c)
      BY <1>1, <1>4 DEF Decline, CanWrite
<1> QED BY <1>2, <1>3, <1>4 DEF Service

LEMMA NextIInv ==
    ASSUME IInv, [Next]_vars
    PROVE  IInv'
<1>1. TypeOK'
      BY NextType
<1>2. CASE UNCHANGED vars
  <2>1. ASSUME NEW c \in Calls PROVE Tied(c)' /\ Lost(c)'
        BY <1>1, <1>2, <2>1, Others, AttemptsAssumption DEF vars, IInv, TypeOK
  <2> QED BY <1>1, <2>1 DEF IInv
<1>3. ASSUME NEW c \in Calls, Caller(c) \/ Service(c), NEW d \in Calls
      PROVE  Tied(d)' /\ Lost(d)'
  <2>1. CASE d = c
        BY <1>1, <1>3, <2>1, CallerStep, ServiceStep
  <2>2. CASE d # c
    <3>1. /\ pc'[d] = pc[d] /\ attempt'[d] = attempt[d] /\ current'[d] = current[d]
          /\ request'[d] = request[d] /\ outcome'[d] = outcome[d]
          /\ d \in applied' <=> d \in applied
          BY <1>3, <2>2 DEF Caller, Service, Read, ReadFails, Write, Refuse, Return, Retry,
             Fail, GiveUp, Execute, Conflict, Decline, Finish, IInv, TypeOK
    <3>2. CASE Execute(c)
      <4>1. Mutate[c][current[c]] \in Values
            BY <3>2, SentValue DEF Execute
      <4>2. foreign[d] <= foreign'[d]
            /\ (value' = value \/ foreign[d] = Attempts \/ foreign'[d] = foreign[d] + 1)
            BY <2>2, <3>2, <4>1, ChangesCount, AttemptsAssumption DEF Execute, IInv, TypeOK
      <4> QED BY <1>1, <3>1, <4>2, Others
    <3>3. CASE ~Execute(c)
      <4>1. value' = value /\ foreign' = foreign
            BY <1>3, <3>3 DEF Caller, Service, Read, ReadFails, Write, Refuse, Return, Retry,
               Fail, GiveUp, Conflict, Decline
      <4> QED BY <1>1, <3>1, <4>1, Others, AttemptsAssumption DEF IInv, TypeOK
    <3> QED BY <3>2, <3>3
  <2> QED BY <2>1, <2>2
<1>4. ASSUME NEW v \in Values \cup {None}, Overwrite(v), NEW d \in Calls
      PROVE  Tied(d)' /\ Lost(d)'
  <2>1. d # None
        BY MutateAssumption
  <2>2. /\ foreign[d] <= foreign'[d]
        /\ foreign[d] < Attempts => foreign'[d] = foreign[d] + 1
        BY <1>4, <2>1, ChangesCount DEF Overwrite, IInv
  <2>3. foreign[d] = Attempts \/ foreign'[d] = foreign[d] + 1
        BY <2>2, AttemptsAssumption DEF IInv, TypeOK
  <2> QED BY <1>1, <1>4, <2>2, <2>3, Others DEF Overwrite
<1> QED BY <1>1, <1>2, <1>3, <1>4 DEF Next, IInv

\* The inductive invariant of the update loop.
THEOREM Invariance == Spec => []IInv
<1>1. IInv /\ [Next]_vars => IInv'
      BY NextIInv
<1> QED BY <1>1, InitIInv, PTL DEF Spec

\* Every variable of the loop has its declared type.
THEOREM TypeCorrect == Spec => []TypeOK
<1>1. IInv => TypeOK
      BY DEF IInv
<1> QED BY <1>1, Invariance, PTL

\* How a call of update_note ends says whether its write was executed.
THEOREM OutcomesAreTrue == Spec => []OutcomeIsTrue
<1>1. IInv => OutcomeIsTrue
      BY DEF IInv, Tied, OutcomeIsTrue
<1> QED BY <1>1, Invariance, PTL

\* ConflictError is raised only when others changed the note once per attempt.
THEOREM ConflictsHaveACause == Spec => []ConflictMeansInterference
<1>1. IInv => ConflictMeansInterference
      BY AttemptsAssumption DEF IInv, TypeOK, Lost, ConflictMeansInterference
<1> QED BY <1>1, Invariance, PTL

\* An executed write is not sent again.
THEOREM WritesHappenOnce == Spec => AppliedAtMostOnce
<1> DEFINE Once == \A c \in applied : request[c] # "sent" /\ request'[c] # "sent"
<1>1. ASSUME IInv, IInv', [Next]_vars
      PROVE  Once
  <2>1. applied \subseteq applied'
        BY <1>1 DEF Next, Caller, Service, Read, ReadFails, Write, Refuse, Return, Retry, Fail,
           GiveUp, Execute, Conflict, Decline, Overwrite, vars
  <2>2. \A c \in applied : request[c] = "written"
        BY <1>1 DEF IInv, TypeOK, Tied
  <2>3. \A c \in applied' : request'[c] = "written"
        BY <1>1 DEF IInv, TypeOK, Tied
  <2> QED BY <2>1, <2>2, <2>3
<1>2. IInv /\ IInv' /\ [Next]_vars => [Once]_vars
      BY <1>1
<1> QED BY <1>2, Invariance, PTL DEF Spec, AppliedAtMostOnce

-----------------------------------------------------------------------------
(* The loop implements the atomic update. *)

LEMMA InitRefines == Init => Atomic!Init
BY DEF Init, Atomic!Init

LEMMA StepRefines ==
    ASSUME IInv, IInv', [Next]_vars
    PROVE  [Atomic!Next]_(Atomic!vars)
<1> USE DEF Atomic!vars
<1>1. CASE UNCHANGED vars
      BY <1>1 DEF vars
<1>2. ASSUME NEW c \in Calls, Caller(c)
      PROVE  [Atomic!Next]_(Atomic!vars)
  <2>1. CASE UNCHANGED <<value, applied, outcome>>
        BY <2>1
  <2>2. ASSUME NEW how \in Outcomes, Finish(c, how), pc[c] # "done",
               UNCHANGED <<value, applied>>,
               how = "ok" => c \in applied,
               how \in {"conflict", "failed"} => c \notin applied
        PROVE  [Atomic!Next]_(Atomic!vars)
    <3>1. outcome[c] = "running"
          BY <2>2 DEF IInv, Tied
    <3>2. Atomic!Finish(c, how)
          BY <2>2, <3>1 DEF Finish, Atomic!Finish, Outcomes
    <3> QED BY <3>2 DEF Atomic!Next, Outcomes
  <2>3. CASE Return(c)
        BY <2>2, <2>3 DEF Return, Outcomes, IInv, Tied
  <2>4. CASE GiveUp(c)
        BY <2>2, <2>4 DEF GiveUp, Outcomes
  <2>5. CASE ReadFails(c) \/ Refuse(c) \/ Fail(c)
        BY <2>2, <2>5 DEF ReadFails, Refuse, Fail, Outcomes, IInv, Tied
  <2>6. CASE Retry(c)
    <3>1. CASE attempt[c] + 1 < Attempts
          BY <2>1, <2>6, <3>1 DEF Retry
    <3>2. CASE ~(attempt[c] + 1 < Attempts)
          BY <2>2, <2>6, <3>2 DEF Retry, Outcomes, IInv, Tied
    <3> QED BY <3>1, <3>2
  <2> QED BY <1>2, <2>1, <2>3, <2>4, <2>5, <2>6 DEF Caller, Read, Write
<1>3. ASSUME NEW c \in Calls, Service(c)
      PROVE  [Atomic!Next]_(Atomic!vars)
  <2>1. CASE Execute(c)
    <3>1. c \notin applied /\ Mutate[c][value] # Refused
          BY <2>1 DEF Execute, IInv, Tied, CanWrite
    <3>2. outcome[c] \in {"running", "unknown"}
          BY <2>1 DEF Execute, IInv, TypeOK, Tied, Outcomes
    <3>3. Atomic!Apply(c)
          BY <2>1, <3>1, <3>2 DEF Execute, Changes, Atomic!Apply
    <3> QED BY <3>3 DEF Atomic!Next
  <2> QED BY <1>3, <2>1 DEF Service, Conflict, Decline
<1>4. ASSUME NEW v \in Values \cup {None}, Overwrite(v)
      PROVE  [Atomic!Next]_(Atomic!vars)
      BY <1>4 DEF Overwrite, Changes, Atomic!Next, Atomic!Interfere
<1> QED BY <1>1, <1>2, <1>3, <1>4 DEF Next

\* A call of update_note changes the note in one step, on the value the note
\* holds at that moment, at most once, and reports it truly.
THEOREM Refinement == Spec => AtomicSpec
<1>1. IInv /\ IInv' /\ [Next]_vars => [Atomic!Next]_(Atomic!vars)
      BY StepRefines
<1> QED BY <1>1, InitRefines, Invariance, PTL DEF Spec, AtomicSpec, Atomic!Spec
=============================================================================
