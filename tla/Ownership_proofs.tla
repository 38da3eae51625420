-------------------------- MODULE Ownership_proofs --------------------------
(***************************************************************************)
(* Proofs about Ownership, for any number of calls, keys and nonces.       *)
(*                                                                         *)
(* IInv ties the request of a call to its place (Tied), its nonce to the   *)
(* counter it was read from (Chosen), and what was written to what the     *)
(* notes hold (Kept).  Chosen is what a stale nonce and a late write hang  *)
(* on: until another write is executed the nonce is above the counter, and *)
(* from then on it is not, as long as the counter is not reclaimed.        *)
(***************************************************************************)
EXTENDS Ownership, TLAPS

Tied(c) ==
    /\ pc[c] = "done" <=> outcome[c] # "running"
    /\ pc[c] \in {"start", "write"} => request[c] = "none"
    /\ pc[c] = "start" => ~overtaken[c] /\ nonce[c] = 0 /\ lapsed[c] = {} /\ ~misread[c]
    /\ pc[c] = "wait" => request[c] # "none"
    /\ outcome[c] = "ok" => request[c] = "written"
    /\ outcome[c] = "conflict" => request[c] = "exists"
    /\ outcome[c] = "forbidden" => request[c] \in {"stale", "denied"}
    /\ outcome[c] = "failed" => request[c] \in {"none", "declined"}

Pending(c) == pc[c] = "write" \/ request[c] = "sent"

Chosen(c) ==
    Given[c] = None =>
        /\ Pending(c) /\ ~overtaken[c] /\ ~misread[c] => nonce[c] > Counter
        /\ Pending(c) /\ ~overtaken[c] /\ "counter" \notin lapsed[c] => nonce[c] <= Counter + 1
        /\ Pending(c) /\ overtaken[c] /\ "counter" \notin lapsed[c] => nonce[c] <= Counter
        /\ request[c] = "stale" => overtaken[c] \/ misread[c]

Kept(c) ==
    /\ request[c] = "written" =>
          /\ "owner" \in lapsed[c] \/ owner = Signer[c]
          /\ "counter" \in lapsed[c] \/ nonce[c] <= Counter
          /\ \/ c \in Claims
             \/ "allow" \in lapsed[c]
             \/ allow # None /\ ("counter" \in lapsed[c] \/ nonce[c] <= nonce[allow])
    /\ allow = c => request[c] = "written"

IInv == TypeOK /\ \A c \in Calls : Tied(c) /\ Chosen(c) /\ Kept(c)

-----------------------------------------------------------------------------
\* room_nonce(room) or 0 is a number.
LEMMA CounterType ==
    ASSUME TypeOK
    PROVE  Counter \in Nat
BY DEF TypeOK, Counter

\* The nonce a call signs is a number.
LEMMA NextNonceType ==
    ASSUME TypeOK, NEW c \in Calls
    PROVE  NextNonce(c) \in Nat
BY CounterType, OwnershipAssumption DEF NextNonce

LEMMA InitIInv == Init => IInv
BY OwnershipAssumption DEF Init, IInv, TypeOK, Tied, Chosen, Pending, Kept

\* Every step keeps the types.
LEMMA NextType ==
    ASSUME TypeOK, [Next]_vars
    PROVE  TypeOK'
<1>1. CASE UNCHANGED vars
      BY <1>1 DEF vars, notes, call, history, TypeOK
<1>2. ASSUME NEW c \in Calls, ReadNonce(c)
      PROVE  TypeOK'
      BY <1>2, NextNonceType DEF ReadNonce, TypeOK, notes, history
<1>3. ASSUME NEW c \in Calls, ReadFails(c) \/ Write(c) \/ Refuse(c) \/ GiveUp(c)
      PROVE  TypeOK'
      BY <1>3 DEF ReadFails, Write, Refuse, GiveUp, Finish, TypeOK, Outcomes, notes, history
<1>4. ASSUME NEW c \in Calls, Execute(c)
      PROVE  TypeOK'
  <2>1. Signer[c] \in Keys
        BY DEF Keys
  <2>2. owner' \in Keys \cup {None} /\ allow' \in Calls \cup {None} /\ counter' \in Nat \cup {None}
        BY <1>4, <2>1 DEF Execute, TypeOK
  <2>3. overtaken' \in [Calls -> BOOLEAN]
        BY <1>4 DEF Execute, TypeOK
  <2> QED BY <1>4, <2>2, <2>3 DEF Execute, TypeOK, Answers
<1>5. ASSUME NEW c \in Calls, Reject(c)
      PROVE  TypeOK'
      BY <1>5 DEF Reject, TypeOK, Answers, notes, history
<1>6. ASSUME NEW c \in Calls, Return(c)
      PROVE  TypeOK'
  <2>1. CASE request[c] = "written"
        BY <1>6, <2>1 DEF Return, Finish, TypeOK, Outcomes, notes, history
  <2>2. CASE request[c] = "exists"
        BY <1>6, <2>2 DEF Return, Finish, TypeOK, Outcomes, notes, history
  <2>3. CASE request[c] \in {"stale", "denied"}
        BY <1>6, <2>3 DEF Return, Finish, TypeOK, Outcomes, notes, history
  <2>4. CASE request[c] = "declined"
        BY <1>6, <2>4 DEF Return, Finish, TypeOK, Outcomes, notes, history
  <2> QED BY <1>6, <2>1, <2>2, <2>3, <2>4 DEF Return, Answers
<1>7. ASSUME NEW c \in Calls, MisreadNonce(c)
      PROVE  TypeOK'
      BY <1>7 DEF MisreadNonce, TypeOK, notes
<1>8. CASE ReclaimOwner \/ ReclaimAllow \/ ReclaimCounter
  <2>1. ASSUME NEW n \in Notes, Lapse(n) PROVE lapsed' \in [Calls -> SUBSET Notes]
        BY <2>1 DEF Lapse, TypeOK
  <2>2. lapsed' \in [Calls -> SUBSET Notes]
        BY <1>8, <2>1 DEF ReclaimOwner, ReclaimAllow, ReclaimCounter, Notes
  <2> QED BY <1>8, <2>2 DEF ReclaimOwner, ReclaimAllow, ReclaimCounter, Lapse, call, TypeOK
<1> QED BY <1>1, <1>2, <1>3, <1>4, <1>5, <1>6, <1>7, <1>8 DEF Next

-----------------------------------------------------------------------------
\* A step that executes no write leaves the notes alone, and of the calls it
\* changes one only.
Local(c) ==
    /\ UNCHANGED <<owner, allow, counter, overtaken, lapsed>>
    /\ \A d \in Calls \ {c} :
          /\ pc'[d] = pc[d] /\ nonce'[d] = nonce[d] /\ misread'[d] = misread[d]
          /\ request'[d] = request[d] /\ outcome'[d] = outcome[d]

Quiet(c) ==
    \/ ReadNonce(c) \/ MisreadNonce(c) \/ ReadFails(c) \/ Write(c) \/ Refuse(c)
    \/ Reject(c) \/ Return(c) \/ GiveUp(c)

\* Only the execution of a write is not local.
LEMMA QuietIsLocal ==
    ASSUME TypeOK, NEW c \in Calls, Quiet(c)
    PROVE  Local(c)
BY DEF Quiet, ReadNonce, MisreadNonce, ReadFails, Write, Refuse, Reject, Return, GiveUp, Finish,
       notes, history, Local, TypeOK

\* A local step by another call.
LEMMA OthersQuiet ==
    ASSUME IInv, NEW c \in Calls, Local(c), NEW d \in Calls \ {c},
           \A e \in Calls : request[e] = "written" => nonce'[e] = nonce[e]
    PROVE  Tied(d)' /\ Chosen(d)' /\ Kept(d)'
<1>1. Tied(d) /\ Chosen(d) /\ Kept(d)
      BY DEF IInv
<1>2. Counter' = Counter
      BY DEF Local, Counter
<1>3. Tied(d)'
      BY <1>1 DEF Local, Tied
<1>4. Chosen(d)'
      BY <1>1, <1>2 DEF Local, Chosen, Pending
<1>5. allow # None => nonce'[allow] = nonce[allow]
      BY DEF IInv, TypeOK, Kept
<1>6. Kept(d)'
      BY <1>1, <1>2, <1>5 DEF Local, Kept
<1> QED BY <1>3, <1>4, <1>6

\* A nonce that was written is not chosen again.
LEMMA WrittenNonceStays ==
    ASSUME IInv, NEW c \in Calls, Quiet(c), NEW e \in Calls, request[e] = "written"
    PROVE  nonce'[e] = nonce[e]
<1>1. Tied(e)
      BY DEF IInv
<1> QED BY <1>1 DEF Quiet, ReadNonce, MisreadNonce, ReadFails, Write, Refuse, Reject, Return, GiveUp,
       Finish, Tied, IInv, TypeOK

\* A step of a call keeps what is known of the call itself.
LEMMA OwnQuiet ==
    ASSUME IInv, NEW c \in Calls, Quiet(c)
    PROVE  Tied(c)' /\ Chosen(c)' /\ Kept(c)'
<1>1. TypeOK /\ Tied(c) /\ Chosen(c) /\ Kept(c)
      BY DEF IInv
<1>2. Counter' = Counter /\ UNCHANGED <<owner, allow, counter, overtaken, lapsed>>
      BY QuietIsLocal, <1>1 DEF Local, Counter
<1>3. Counter \in Nat
      BY <1>1, CounterType
<1>4. CASE ReadNonce(c) \/ MisreadNonce(c)
  <2>1. Tied(c)'
        BY <1>1, <1>2, <1>4 DEF ReadNonce, MisreadNonce, history, Tied, TypeOK
  <2>2. /\ ~overtaken[c] /\ request[c] = "none" /\ request'[c] = "none"
        /\ ~overtaken'[c] /\ lapsed'[c] = lapsed[c]
        BY <1>1, <1>2, <1>4 DEF ReadNonce, MisreadNonce, Tied
  <2>3. Chosen(c)'
    <3>1. CASE ReadNonce(c)
      <4>1. Given[c] = None => nonce'[c] = Counter + 1
            BY <1>1, <3>1 DEF ReadNonce, NextNonce, TypeOK
      <4> QED BY <1>2, <1>3, <2>2, <4>1 DEF Chosen, Pending
    <3>2. CASE MisreadNonce(c)
      <4>1. nonce'[c] = 1 /\ misread'[c]
            BY <1>1, <3>2 DEF MisreadNonce, TypeOK
      <4> QED BY <1>2, <1>3, <2>2, <4>1 DEF Chosen, Pending
    <3> QED BY <1>4, <3>1, <3>2
  <2>4. Kept(c)'
        BY <1>1, <1>2, <1>4, <2>2 DEF ReadNonce, MisreadNonce, Kept, Tied, TypeOK
  <2> QED BY <2>1, <2>3, <2>4
<1>5. CASE ReadFails(c) \/ Write(c) \/ Refuse(c) \/ GiveUp(c)
  <2>1. Tied(c)'
        BY <1>1, <1>5 DEF ReadFails, Write, Refuse, GiveUp, Finish, Tied, history, TypeOK
  <2>2. Chosen(c)'
        BY <1>1, <1>2, <1>5 DEF ReadFails, Write, Refuse, GiveUp, Finish, Chosen, Pending, Tied, history, TypeOK
  <2>3. Kept(c)'
        BY <1>1, <1>2, <1>5 DEF ReadFails, Write, Refuse, GiveUp, Finish, Kept, Tied, TypeOK
  <2> QED BY <2>1, <2>2, <2>3
<1>6. CASE Reject(c)
  <2>1. Tied(c)'
        BY <1>1, <1>6 DEF Reject, Tied, history, TypeOK
  <2>2. Chosen(c)'
    <3>1. ~IsFresh(c) /\ Given[c] = None => overtaken[c] \/ misread[c]
          BY <1>1, <1>3, <1>6 DEF Reject, IsFresh, Chosen, Pending, TypeOK
    <3> QED BY <1>1, <1>2, <1>6, <3>1 DEF Reject, Chosen, Pending, Tied, history, TypeOK
  <2>3. Kept(c)'
        BY <1>1, <1>2, <1>6 DEF Reject, Kept, TypeOK
  <2> QED BY <2>1, <2>2, <2>3
<1>7. CASE Return(c)
  <2>1. Tied(c)'
    <3>1. CASE request[c] = "written"
          BY <1>1, <1>7, <3>1 DEF Return, Finish, Tied, history, TypeOK
    <3>2. CASE request[c] = "exists"
          BY <1>1, <1>7, <3>2 DEF Return, Finish, Tied, history, TypeOK
    <3>3. CASE request[c] \in {"stale", "denied"}
          BY <1>1, <1>7, <3>3 DEF Return, Finish, Tied, history, TypeOK
    <3>4. CASE request[c] = "declined"
          BY <1>1, <1>7, <3>4 DEF Return, Finish, Tied, history, TypeOK
    <3> QED BY <1>7, <3>1, <3>2, <3>3, <3>4 DEF Return, Answers
  <2>2. pc'[c] = "done" /\ UNCHANGED <<request, nonce, misread>>
        BY <1>1, <1>7 DEF Return, Finish, history, TypeOK
  <2>3. Chosen(c)' /\ Kept(c)'
        BY <1>1, <1>2, <1>7, <2>2 DEF Return, Chosen, Pending, Kept, Answers
  <2> QED BY <2>1, <2>3
<1> QED BY <1>4, <1>5, <1>6, <1>7 DEF Quiet

-----------------------------------------------------------------------------
\* The execution of a write.
LEMMA ExecuteIInv ==
    ASSUME IInv, NEW c \in Calls, Execute(c), NEW d \in Calls
    PROVE  Tied(d)' /\ Chosen(d)' /\ Kept(d)'
<1>1. TypeOK /\ Tied(c) /\ Chosen(c) /\ Kept(c) /\ Tied(d) /\ Chosen(d) /\ Kept(d)
      BY DEF IInv
<1>2. /\ Counter \in Nat /\ nonce[c] \in Nat /\ nonce[d] \in Nat
      /\ Counter' = nonce[c] /\ Counter < Counter'
      BY <1>1, CounterType, OwnershipAssumption DEF Execute, IsFresh, Counter, TypeOK
<1>3. /\ UNCHANGED <<pc, nonce, outcome, lapsed, misread>>
      /\ request[c] = "sent" /\ request'[c] = "written"
      /\ d # c => request'[d] = request[d]
      /\ overtaken'[d] = (overtaken[d] \/ (d # c /\ pc[d] \in {"write", "wait", "done"}))
      BY <1>1 DEF Execute, TypeOK
<1>4. Tied(d)'
      BY <1>1, <1>3 DEF Tied, TypeOK
<1>5. Chosen(d)'
  <2>1. CASE d = c
        BY <1>1, <1>2, <1>3, <2>1 DEF Chosen, Pending, Tied
  <2>2. CASE d # c
    <3>1. Pending(d) => overtaken'[d]
          BY <1>1, <1>3, <2>2 DEF Pending, Tied, TypeOK
    <3>2. Pending(d) /\ Given[d] = None /\ "counter" \notin lapsed[d] => nonce[d] <= Counter + 1
          BY <1>1, <1>2 DEF Chosen, TypeOK
    <3>3. Pending(d) /\ Given[d] = None /\ "counter" \notin lapsed[d] => nonce[d] <= Counter'
          BY <1>2, <3>2
    <3>4. /\ Pending(d)' <=> Pending(d)
          /\ request'[d] = "stale" => request[d] = "stale" /\ (overtaken[d] => overtaken'[d])
          BY <1>3, <2>2 DEF Pending
    <3> QED BY <1>1, <1>3, <3>1, <3>3, <3>4 DEF Chosen
  <2> QED BY <2>1, <2>2
<1>6. Kept(d)'
  <2>1. owner' = Signer[c]
        BY DEF Execute, IsEntitled
  <2>2. request[d] = "written" /\ "owner" \notin lapsed[d] => owner = Signer[d] /\ owner # None
        BY <1>1, OwnershipAssumption DEF Kept
  <2>3. request'[d] = "written" => "owner" \in lapsed'[d] \/ owner' = Signer[d]
        BY <1>3, <2>1, <2>2 DEF Execute, IsFree
  <2>4. request'[d] = "written" => "counter" \in lapsed'[d] \/ nonce'[d] <= Counter'
        BY <1>1, <1>2, <1>3 DEF Kept
  <2>5. CASE c \in Claims
    <3>1. allow' = allow
          BY <2>5 DEF Execute
    <3>2. allow' = d => request'[d] = "written"
          BY <1>1, <1>3, <3>1 DEF Kept
    <3>3. request'[d] = "written" /\ d \notin Claims => request[d] = "written"
          BY <1>3, <2>5
    <3> QED BY <1>1, <1>3, <2>3, <2>4, <3>1, <3>2, <3>3 DEF Kept
  <2>6. CASE c \notin Claims
    <3>1. allow' = c /\ c # None
          BY <2>6, OwnershipAssumption DEF Execute
    <3>2. request'[d] = "written" => "counter" \in lapsed'[d] \/ nonce'[d] <= nonce'[allow']
          BY <1>2, <1>3, <2>4, <3>1
    <3> QED BY <1>3, <2>3, <2>4, <3>1, <3>2 DEF Kept
  <2> QED BY <2>5, <2>6
<1> QED BY <1>4, <1>5, <1>6

\* The service reclaims a note: every call that has chosen its nonce is told.
LEMMA ReclaimIInv ==
    ASSUME IInv, ReclaimOwner \/ ReclaimAllow \/ ReclaimCounter, NEW d \in Calls
    PROVE  Tied(d)' /\ Chosen(d)' /\ Kept(d)'
<1>1. TypeOK /\ Tied(d) /\ Chosen(d) /\ Kept(d) /\ Counter \in Nat /\ nonce[d] \in Nat
      BY CounterType DEF IInv, TypeOK
<1>2. UNCHANGED <<pc, nonce, request, outcome, overtaken, misread>>
      BY DEF ReclaimOwner, ReclaimAllow, ReclaimCounter, Lapse, call
<1>3. PICK n \in Notes :
          /\ n = "owner" \/ owner' = owner
          /\ allow' = IF n = "allow" THEN None ELSE allow
          /\ counter' = IF n = "counter" THEN None ELSE counter
          /\ lapsed'[d] = IF pc[d] = "start" THEN {} ELSE lapsed[d] \cup {n}
      BY DEF ReclaimOwner, ReclaimAllow, ReclaimCounter, Lapse, Notes
<1>4. /\ n # "counter" => Counter' = Counter
      /\ Counter' <= Counter /\ Counter' \in Nat
  <2>1. CASE n = "counter"
    <3>1. counter' = None
          BY <1>3, <2>1
    <3>2. Counter' = 0
          BY <3>1 DEF Counter
    <3> QED BY <1>1, <2>1, <3>2
  <2>2. CASE n # "counter"
    <3>1. counter' = counter
          BY <1>3, <2>2
    <3>2. Counter' = Counter
          BY <3>1 DEF Counter
    <3> QED BY <1>1, <2>2, <3>2
  <2> QED BY <2>1, <2>2
<1>5. Pending(d) \/ request[d] = "written" => lapsed'[d] = lapsed[d] \cup {n}
      BY <1>1, <1>3 DEF Tied, Pending
<1>6. Tied(d)'
      BY <1>1, <1>2, <1>3 DEF Tied
<1>7. Chosen(d)'
  <2>1. Pending(d)' <=> Pending(d)
        BY <1>2 DEF Pending
  <2>2. CASE n = "counter"
        BY <1>1, <1>2, <1>4, <1>5, <2>1, <2>2 DEF Chosen
  <2>3. CASE n # "counter"
        BY <1>1, <1>2, <1>4, <1>5, <2>1, <2>3 DEF Chosen
  <2> QED BY <2>2, <2>3
<1>8. Kept(d)'
  <2>1. allow' = d => request'[d] = "written"
        BY <1>1, <1>2, <1>3, OwnershipAssumption DEF Kept
  <2>2. CASE request[d] = "written"
    <3>1. lapsed'[d] = lapsed[d] \cup {n}
          BY <1>5, <2>2
    <3> QED BY <1>1, <1>2, <1>3, <1>4, <2>1, <2>2, <3>1 DEF Kept
  <2> QED BY <1>2, <2>1, <2>2 DEF Kept
<1> QED BY <1>6, <1>7, <1>8

\* Every step keeps the invariant.
LEMMA NextIInv ==
    ASSUME IInv, [Next]_vars
    PROVE  IInv'
<1>1. TypeOK'
      BY NextType DEF IInv
<1>2. CASE UNCHANGED vars
      BY <1>1, <1>2 DEF vars, notes, call, history, IInv, Tied, Chosen, Pending, Kept, Counter
<1>3. ASSUME NEW c \in Calls, Execute(c)
      PROVE  \A d \in Calls : Tied(d)' /\ Chosen(d)' /\ Kept(d)'
      BY <1>3, ExecuteIInv
<1>4. ASSUME NEW c \in Calls, Quiet(c), NEW d \in Calls
      PROVE  Tied(d)' /\ Chosen(d)' /\ Kept(d)'
  <2>1. Local(c)
        BY <1>4, QuietIsLocal DEF IInv
  <2>2. \A e \in Calls : request[e] = "written" => nonce'[e] = nonce[e]
        BY <1>4, WrittenNonceStays
  <2>3. CASE d = c
        BY <1>4, <2>3, OwnQuiet
  <2>4. CASE d # c
        BY <1>4, <2>1, <2>2, <2>4, OthersQuiet
  <2> QED BY <2>3, <2>4
<1>5. ASSUME ReclaimOwner \/ ReclaimAllow \/ ReclaimCounter
      PROVE  \A d \in Calls : Tied(d)' /\ Chosen(d)' /\ Kept(d)'
      BY <1>5, ReclaimIInv
<1> QED BY <1>1, <1>2, <1>3, <1>4, <1>5 DEF Next, Quiet, IInv

\* The strengthened invariant of the signed writes of one room.
THEOREM Invariance == Spec => []IInv
<1>1. Init => IInv
      BY InitIInv
<1>2. IInv /\ [Next]_vars => IInv'
      BY NextIInv
<1> QED BY <1>1, <1>2, PTL DEF Spec

\* claim_room and allow_writers keep their types.
THEOREM TypeCorrect == Spec => []TypeOK
<1>1. IInv => TypeOK
      BY DEF IInv
<1> QED BY <1>1, Invariance, PTL

\* A default nonce is refused as stale only when another write came between
\* room_nonce and the write, or the counter's text was taken for no counter.
THEOREM StaleHasACause == Spec => []StaleMeansOvertaken
<1>1. IInv => StaleMeansOvertaken
      BY DEF IInv, Chosen, StaleMeansOvertaken
<1> QED BY <1>1, Invariance, PTL

\* What claim_room and allow_writers return or raise is true, and stays true until
\* the note it is about is reclaimed.
THEOREM ReturnsAreTrue == Spec => []ReturnedIsTrue
<1>1. IInv => ReturnedIsTrue
  <2>1. SUFFICES ASSUME IInv, NEW c \in Calls
        PROVE  /\ outcome[c] = "ok" =>
                     /\ "owner" \in lapsed[c] \/ owner = Signer[c]
                     /\ "counter" \in lapsed[c] \/ Counter >= nonce[c]
                     /\ \/ c \in Claims
                        \/ "allow" \in lapsed[c]
                        \/ allow # None /\ ("counter" \in lapsed[c] \/ nonce[allow] >= nonce[c])
               /\ outcome[c] \in {"conflict", "forbidden", "failed"}
                     => request[c] \notin {"sent", "written"}
        BY DEF ReturnedIsTrue
  <2>2. TypeOK /\ Tied(c) /\ Kept(c)
        BY <2>1 DEF IInv
  <2>3. Counter \in Nat /\ nonce[c] \in Nat /\ (allow # None => nonce[allow] \in Nat)
        BY <2>2, CounterType DEF TypeOK
  <2> QED BY <2>2, <2>3 DEF Tied, Kept
<1> QED BY <1>1, Invariance, PTL

\* A write whose nonce was overtaken is never executed, however late it comes,
\* while the counter is kept.
THEOREM NothingComesLate == Spec => NothingIsAppliedLate
<1>1. IInv /\ [Next]_vars =>
        [\A c \in Calls :
            /\ request[c] = "sent" /\ request'[c] = "written"
            /\ Given[c] = None /\ overtaken[c]
            => "counter" \in lapsed[c]]_vars
  <2>1. SUFFICES ASSUME IInv, Next, NEW c \in Calls, request[c] = "sent",
                        request'[c] = "written", Given[c] = None, overtaken[c],
                        "counter" \notin lapsed[c]
                 PROVE  FALSE
        OBVIOUS
  <2>2. TypeOK /\ Chosen(c) /\ Counter \in Nat
        BY <2>1, CounterType DEF IInv
  <2>3. ~IsFresh(c)
        BY <2>1, <2>2 DEF Chosen, Pending, IsFresh, TypeOK
  <2>4. PICK d \in Calls : Execute(d) \/ Quiet(d)
        BY <2>1 DEF Next, Quiet, ReclaimOwner, ReclaimAllow, ReclaimCounter, Lapse, call
  <2>5. ~Execute(c)
        BY <2>3 DEF Execute
  <2>6. CASE Execute(d)
        BY <2>1, <2>2, <2>5, <2>6 DEF Execute, TypeOK
  <2>7. CASE Quiet(d)
        BY <2>1, <2>2, <2>7 DEF Quiet, ReadNonce, MisreadNonce, ReadFails, Write, Refuse, Reject, Return,
           GiveUp, TypeOK
  <2> QED BY <2>4, <2>6, <2>7
<1> QED BY <1>1, Invariance, PTL DEF Spec, NothingIsAppliedLate
=============================================================================
