--------------------------- MODULE Registry_proofs ---------------------------
(* Proofs about Registry, for any calls, texts and number of processes.        *)
EXTENDS Registry, TLAPS

-----------------------------------------------------------------------------
(* Types. *)

LEMMA ChangeType ==
    ASSUME TypeOK, NEW l \in Places, NEW text \in Values \cup {None}, Change(l, text)
    PROVE  /\ notes' \in [Places -> Values \cup {None}]
           /\ touched' \subseteq Publishers
           /\ stable' \in [Resolvers -> [Places -> Values \cup {None}]]
BY DEF TypeOK, Change

LEMMA CallParts ==
    ASSUME NEW p \in Publishers
    PROVE  Call[p].at \in Places /\ Call[p].value \in Values
BY CallAssumption DEF CallType

LEMMA TypeInit == Init => TypeOK
BY ValueAssumption DEF Init, TypeOK

LEMMA TypeStep == TypeOK /\ [Next]_vars => TypeOK'
<1> SUFFICES ASSUME TypeOK, [Next]_vars PROVE TypeOK'
    OBVIOUS
<1>1. CASE Stranger
  <2>1. PICK l \in Places, text \in Values \cup {None} : Change(l, text)
        BY <1>1 DEF Stranger
  <2>2. strangers' \in 0 .. MaxStrangers
        BY <1>1, ValueAssumption DEF Stranger, TypeOK
  <2> QED BY <1>1, <2>1, <2>2, ChangeType DEF Stranger, publisher, resolver, TypeOK
<1>2. ASSUME NEW p \in Publishers, Execute(p) PROVE TypeOK'
  <2>1. Change(Call[p].at, Call[p].value)
        BY <1>2 DEF Execute
  <2> QED BY <1>2, <2>1, CallParts, ChangeType DEF Execute, resolver, TypeOK
<1>3. ASSUME NEW p \in Publishers, Publisher(p) PROVE TypeOK'
      BY <1>3 DEF Publisher, Write, Refused, GiveUp, Written, ReadBack, ReadBackFails,
                  Finish, resolver, TypeOK
<1>4. ASSUME NEW p \in Publishers, Conflict(p) \/ Decline(p) PROVE TypeOK'
      BY <1>4 DEF Conflict, Decline, resolver, TypeOK
<1>5. ASSUME NEW r \in Resolvers, Resolver(r) PROVE TypeOK'
  <2>1. CASE Begin(r)
        BY <2>1 DEF Begin, publisher, TypeOK, Places
  <2>2. CASE Find(r)
        BY <2>2 DEF Find, IsAbout, publisher, TypeOK, Places
  <2>3. CASE LookOn(r)
        BY <2>3 DEF LookOn, NextPlace, IsAbout, publisher, TypeOK, Places
  <2>4. CASE Fail(r)
        BY <2>4 DEF Fail, publisher, TypeOK, Places
  <2> QED BY <1>5, <2>1, <2>2, <2>3, <2>4 DEF Resolver
<1>6. CASE UNCHANGED vars
      BY <1>6 DEF vars, publisher, resolver, TypeOK
<1> QED BY <1>1, <1>2, <1>3, <1>4, <1>5, <1>6 DEF Next, Service

\* Types are kept.
THEOREM TypeCorrect == Spec => []TypeOK
BY TypeInit, TypeStep, PTL DEF Spec

-----------------------------------------------------------------------------
(* Publishing. *)

\* A written note stands until it is touched.
Stands ==
    \A p \in Publishers :
        request[p] = "written" => notes[Call[p].at] = Call[p].value \/ p \in touched

\* Where a publisher is tells what became of its write.
Reached ==
    \A p \in Publishers :
        /\ pc[p] = "write" => request[p] = "none" /\ outcome[p] = "none"
        /\ pc[p] \in {"wait", "read"} => outcome[p] = "none"
        /\ pc[p] = "read" => request[p] = "written"

PublishInv == Stands /\ Reached /\ PublishIsTrue

\* What Change does to a publisher whose write was executed before.
LEMMA ChangeTouches ==
    ASSUME TypeOK, Stands, NEW l \in Places, NEW text \in Values \cup {None}, Change(l, text),
           NEW p \in Publishers, request[p] = "written"
    PROVE  /\ notes'[Call[p].at] = Call[p].value \/ p \in touched'
           /\ p \in touched => p \in touched'
BY CallParts DEF Change, Stands, TypeOK

LEMMA PublishInit == Init => PublishInv
BY DEF Init, PublishInv, Stands, Reached, PublishIsTrue

LEMMA PublishStep == TypeOK /\ PublishInv /\ [Next]_vars => PublishInv'
<1> SUFFICES ASSUME TypeOK, PublishInv, [Next]_vars PROVE PublishInv'
    OBVIOUS
<1>1. CASE Stranger
  <2>1. PICK l \in Places, text \in Values \cup {None} : Change(l, text)
        BY <1>1 DEF Stranger
  <2>2. \A p \in Publishers : request[p] = "written" =>
            (notes'[Call[p].at] = Call[p].value \/ p \in touched') /\ (p \in touched => p \in touched')
        BY <2>1, ChangeTouches DEF PublishInv
  <2> QED BY <1>1, <2>2 DEF Stranger, publisher, PublishInv, Stands, Reached, PublishIsTrue
<1>2. ASSUME NEW q \in Publishers, Execute(q) PROVE PublishInv'
  <2>1. Change(Call[q].at, Call[q].value)
        BY <1>2 DEF Execute
  <2>2. \A p \in Publishers : request[p] = "written" =>
            (notes'[Call[p].at] = Call[p].value \/ p \in touched') /\ (p \in touched => p \in touched')
        BY <2>1, ChangeTouches, CallParts DEF PublishInv
  <2>3. notes'[Call[q].at] = Call[q].value
        BY <2>1, CallParts DEF Change, TypeOK
  <2>4. request[q] = "sent" /\ request' = [request EXCEPT ![q] = "written"]
        BY <1>2 DEF Execute
  <2>5. \A p \in Publishers : request'[p] = IF p = q THEN "written" ELSE request[p]
        BY <2>4 DEF TypeOK
  <2>6. Stands'
        BY <2>2, <2>3, <2>5 DEF Stands
  <2>7. Reached' /\ PublishIsTrue'
        BY <1>2, <2>2, <2>3, <2>4, <2>5 DEF Execute, PublishInv, Reached, PublishIsTrue
  <2> QED BY <2>6, <2>7 DEF PublishInv
<1>3. ASSUME NEW q \in Publishers, Publisher(q) PROVE PublishInv'
  <2>1. CASE Write(q)
        BY <2>1 DEF Write, TypeOK, PublishInv, Stands, Reached, PublishIsTrue
  <2>2. CASE Refused(q)
        BY <2>2 DEF Refused, Finish, TypeOK, PublishInv, Stands, Reached, PublishIsTrue
  <2>3. CASE GiveUp(q) \/ ReadBackFails(q)
        BY <2>3 DEF GiveUp, ReadBackFails, Finish, TypeOK, PublishInv, Stands, Reached, PublishIsTrue
  <2>4. CASE Written(q)
        BY <2>4 DEF Written, TypeOK, PublishInv, Stands, Reached, PublishIsTrue
  <2>5. CASE ReadBack(q)
        BY <2>5 DEF ReadBack, Finish, TypeOK, PublishInv, Stands, Reached, PublishIsTrue
  <2> QED BY <1>3, <2>1, <2>2, <2>3, <2>4, <2>5 DEF Publisher
<1>4. ASSUME NEW q \in Publishers, Conflict(q) \/ Decline(q) PROVE PublishInv'
  <2>1. request[q] = "sent" /\ UNCHANGED <<notes, pc, outcome, touched>>
        BY <1>4 DEF Conflict, Decline
  <2>2. PICK answer \in {"conflict", "declined"} : request' = [request EXCEPT ![q] = answer]
        BY <1>4 DEF Conflict, Decline
  <2>3. \A p \in Publishers : request'[p] = IF p = q THEN answer ELSE request[p]
        BY <2>2 DEF TypeOK
  <2>4. Stands'
        BY <2>1, <2>3 DEF PublishInv, Stands
  <2>5. Reached'
        BY <2>1, <2>3 DEF PublishInv, Reached
  <2>6. PublishIsTrue'
        BY <2>1, <2>3 DEF PublishInv, PublishIsTrue
  <2> QED BY <2>4, <2>5, <2>6 DEF PublishInv
<1>5. ASSUME NEW r \in Resolvers, Resolver(r) PROVE PublishInv'
      BY <1>5 DEF Resolver, Begin, Find, LookOn, Fail, publisher, PublishInv, Stands, Reached,
                  PublishIsTrue
<1>6. CASE UNCHANGED vars
      BY <1>6 DEF vars, publisher, PublishInv, Stands, Reached, PublishIsTrue
<1> QED BY <1>1, <1>2, <1>3, <1>4, <1>5, <1>6 DEF Next, Service

\* What a publication reports is true and stays true.
THEOREM PublicationsAreTrue == Spec => []PublishIsTrue
<1>1. Init => PublishInv
      BY PublishInit
<1>2. TypeOK /\ PublishInv /\ [Next]_vars => PublishInv'
      BY PublishStep
<1>3. PublishInv => PublishIsTrue
      BY DEF PublishInv
<1> QED BY <1>1, <1>2, <1>3, TypeCorrect, PTL DEF Spec

-----------------------------------------------------------------------------
(* Resolving. *)

\* What stood since a resolver began still stands.
Standing ==
    \A r \in Resolvers, l \in Places : stable[r][l] # None => stable[r][l] = notes[l]

\* Where a resolver is tells what it has not found.
Looked ==
    \A r \in Resolvers :
        /\ place[r] # "done" => found[r] = None
        /\ place[r] = "legacy" => ~IsAbout(stable[r]["sharded"])

ResolveInv == Standing /\ Looked /\ ResolveIsTrue

\* A change never puts anything under `stable`.
LEMMA ChangeUnsettles ==
    ASSUME TypeOK, Standing, NEW l \in Places, NEW text \in Values \cup {None}, Change(l, text)
    PROVE  /\ Standing'
           /\ \A r \in Resolvers, k \in Places : stable'[r][k] \in {None, stable[r][k]}
BY DEF Change, Standing, TypeOK

LEMMA ResolveInit == Init => ResolveInv
BY DEF Init, ResolveInv, Standing, Looked, ResolveIsTrue, Places, IsAbout

LEMMA ResolveStep == TypeOK /\ ResolveInv /\ [Next]_vars => ResolveInv'
<1> SUFFICES ASSUME TypeOK, ResolveInv, [Next]_vars PROVE ResolveInv'
    OBVIOUS
<1>1. ASSUME NEW l \in Places, NEW text \in Values \cup {None}, Change(l, text),
             UNCHANGED resolver
      PROVE  ResolveInv'
  <2>1. Standing' /\ \A r \in Resolvers, k \in Places : stable'[r][k] \in {None, stable[r][k]}
        BY <1>1, ChangeUnsettles DEF ResolveInv
  <2>2. \A r \in Resolvers, k \in Places :
            IsAbout(stable'[r][k]) => IsAbout(stable[r][k]) /\ stable'[r][k] = stable[r][k]
        BY <2>1 DEF IsAbout
  <2>3. Looked'
        BY <1>1, <2>2 DEF resolver, ResolveInv, Looked, Places, IsAbout
  <2>4. ResolveIsTrue'
        BY <1>1, <2>2 DEF resolver, ResolveInv, ResolveIsTrue, Places, IsAbout
  <2> QED BY <2>1, <2>3, <2>4 DEF ResolveInv
<1>2. CASE Stranger
      BY <1>1, <1>2 DEF Stranger
<1>3. ASSUME NEW p \in Publishers, Publisher(p) \/ Service(p) PROVE ResolveInv'
  <2>1. CASE Execute(p)
        BY <1>1, <2>1, CallParts DEF Execute
  <2>2. CASE Publisher(p) \/ Conflict(p) \/ Decline(p)
    <3>1. UNCHANGED <<notes, resolver, stable>>
          BY <2>2 DEF Publisher, Write, Refused, GiveUp, Written, ReadBack, ReadBackFails,
                      Conflict, Decline
    <3> QED BY <3>1 DEF resolver, ResolveInv, Standing, Looked, ResolveIsTrue
  <2> QED BY <1>3, <2>1, <2>2 DEF Service
<1>4. ASSUME NEW q \in Resolvers, Resolver(q) PROVE ResolveInv'
  <2>1. CASE Begin(q)
        BY <2>1 DEF Begin, TypeOK, ResolveInv, Standing, Looked, ResolveIsTrue, Places
  <2>2. CASE Find(q)
        BY <2>2 DEF Find, TypeOK, ResolveInv, Standing, Looked, ResolveIsTrue, Places, IsAbout
  <2>3. CASE LookOn(q)
        BY <2>3 DEF LookOn, NextPlace, TypeOK, ResolveInv, Standing, Looked, ResolveIsTrue,
                    Places, IsAbout
  <2>4. CASE Fail(q)
        BY <2>4 DEF Fail, TypeOK, ResolveInv, Standing, Looked, ResolveIsTrue, Places
  <2> QED BY <1>4, <2>1, <2>2, <2>3, <2>4 DEF Resolver
<1>5. CASE UNCHANGED vars
      BY <1>5 DEF vars, resolver, ResolveInv, Standing, Looked, ResolveIsTrue
<1> QED BY <1>2, <1>3, <1>4, <1>5 DEF Next

\* No lookup misses a note that stood, or passes over the sharded one.
THEOREM LookupsAreTrue == Spec => []ResolveIsTrue
<1>1. Init => ResolveInv
      BY ResolveInit
<1>2. TypeOK /\ ResolveInv /\ [Next]_vars => ResolveInv'
      BY ResolveStep
<1>3. ResolveInv => ResolveIsTrue
      BY DEF ResolveInv
<1> QED BY <1>1, <1>2, <1>3, TypeCorrect, PTL DEF Spec
=============================================================================
