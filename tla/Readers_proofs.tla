---------------------------- MODULE Readers_proofs ----------------------------
(* Proofs about Readers, for any ring, page limit and bounds.                  *)
EXTENDS Readers, TLAPS

Reported == Delivered \cup told

-----------------------------------------------------------------------------
(* Types. *)

\* The numbers of the room and of the page that the reader holds.
Inside ==
    /\ gen <= MaxGen /\ head <= MaxSeq
    /\ page.gen <= gen /\ page.high <= MaxSeq
    /\ page.gen = gen => page.high <= head

LEMMA PageParts ==
    ASSUME TypeOK, NEW seq \in Nat
    PROVE  /\ PageAbove(seq) \in [low : Nat \ {0}, high : Nat, gen : Nat]
           /\ PageAbove(seq).low > seq /\ PageAbove(seq).low >= low
           /\ PageAbove(seq).high = head /\ PageAbove(seq).gen = gen
           /\ PageAbove(seq).low > head => seq >= head \/ low > head
<1> DEFINE p == PageAbove(seq)
<1>1. low \in Nat \ {0} /\ head \in Nat /\ gen \in Nat /\ Limit \in Nat \ {0}
      BY RoomAssumption DEF TypeOK
<1>2. p = [low |-> p.low, high |-> head, gen |-> gen]
      BY DEF PageAbove
<1>3. p.low = Larger(Larger(seq + 1, low), head - Limit + 1)
      BY DEF PageAbove
<1>4. /\ p.low \in Nat \ {0} /\ p.low > seq /\ p.low >= low
      /\ p.low > head => seq >= head \/ low > head
      BY <1>1, <1>3 DEF Larger
<1> QED BY <1>1, <1>2, <1>4

\* What TypeOK and Inside say of the page.
LEMMA PageFacts ==
    ASSUME TypeOK, Inside
    PROVE  /\ page.low \in Nat \ {0} /\ page.high \in Nat /\ page.gen \in Nat
           /\ page.gen \in Generations
           /\ \A s \in 1 .. page.high : <<page.gen, s>> \in Message
           /\ \A s \in 1 .. head : <<gen, s>> \in Message
BY RoomAssumption DEF TypeOK, Inside, Message, Generations, Numbers

LEMMA AdoptedType ==
    ASSUME TypeOK
    PROVE  /\ Adopted \in Nat
           /\ Empty => Missed = {}
           /\ \A s \in Missed : s \in Nat \ {0} /\ s < page.low /\ page.low <= page.high /\ s > Adopted
<1>1. page.low \in Nat \ {0} /\ page.high \in Nat /\ cursor \in Nat
      BY DEF TypeOK
<1>2. Adopted \in Nat
      BY <1>1 DEF Adopted
<1> QED BY <1>1, <1>2 DEF Missed, Empty

LEMMA Appended ==
    ASSUME NEW S, NEW seq \in Seq(S), NEW e \in S
    PROVE  /\ Append(seq, e) \in Seq(S)
           /\ {Append(seq, e)[i] : i \in 1 .. Len(Append(seq, e))} =
                  {seq[i] : i \in 1 .. Len(seq)} \cup {e}
<1>1. /\ Append(seq, e) \in Seq(S) /\ Len(Append(seq, e)) = Len(seq) + 1 /\ Len(seq) \in Nat
      /\ \A i \in 1 .. Len(seq) : Append(seq, e)[i] = seq[i]
      /\ Append(seq, e)[Len(seq) + 1] = e
      OBVIOUS
<1>2. 1 .. Len(seq) + 1 = (1 .. Len(seq)) \cup {Len(seq) + 1}
      BY <1>1
<1> QED BY <1>1, <1>2, Zenon

LEMMA TypeInit == Init => TypeOK /\ Inside
<1> SUFFICES ASSUME Init PROVE TypeOK /\ Inside
    OBVIOUS
<1>1. head \in Nat /\ gen = 0 /\ aged = 0 /\ low \in 1 .. head + 1 /\ cursor \in Nat
      BY RoomAssumption DEF Init, Larger
<1>2. page \in [low : Nat \ {0}, high : Nat, gen : Nat] /\ out \in Seq(Message)
      BY DEF Init
<1>3. TypeOK
      BY <1>1, <1>2 DEF Init, TypeOK
<1>4. page.gen = 0 /\ page.high = 0
      BY DEF Init
<1> QED BY <1>1, <1>3, <1>4, RoomAssumption DEF Init, Inside

LEMMA TypeStep == TypeOK /\ Inside /\ [Next]_vars => TypeOK' /\ Inside'
<1> SUFFICES ASSUME TypeOK, Inside, [Next]_vars PROVE TypeOK' /\ Inside'
    OBVIOUS
<1>0. /\ gen \in Nat /\ head \in Nat /\ low \in 1 .. head + 1 /\ aged \in 0 .. low - 1
      /\ cursor \in Nat /\ base \in Nat /\ next \in Nat \ {0}
      /\ page.low \in Nat \ {0} /\ page.high \in Nat /\ page.gen \in Nat
      BY DEF TypeOK
<1>1. CASE Post
  <2>1. head' \in Nat /\ low' \in 1 .. head' + 1 /\ aged \in 0 .. low' - 1 /\ head' <= MaxSeq
        BY <1>0, <1>1, RoomAssumption DEF Post, Larger
  <2> QED BY <1>0, <1>1, <2>1 DEF Post, history, TypeOK, Inside
<1>2. CASE Expire
      BY <1>0, <1>2 DEF Expire, history, TypeOK, Inside
<1>3. CASE Reap
      BY <1>0, <1>3, RoomAssumption DEF Reap, history, TypeOK, Inside
<1>4. CASE Ask
      BY <1>0, <1>4 DEF Ask, room, history, TypeOK, Inside
<1>5. CASE Answer
  <2>1. page' \in [low : Nat \ {0}, high : Nat, gen : Nat] /\ page'.high = head /\ page'.gen = gen
        BY <1>0, <1>5, PageParts DEF Answer
  <2> QED BY <1>0, <1>5, <2>1 DEF Answer, room, history, TypeOK, Inside
<1>6. CASE Bootstrap \/ Advance \/ Sleep \/ Fail \/ ShowNothing \/ Show \/ ToolFail
  <2>1. cursor' \in Nat /\ start' \in Nat
        BY <1>0, <1>6 DEF Bootstrap, Advance, Advanced, Larger, Sleep, Fail, ShowNothing, Show,
                          NextSince, ToolFail, room, history, TypeOK
  <2>2. pc' \in {"bootstrap", "poll", "asked", "answered", "gap", "yield", "keep", "sleep", "ended"}
        BY <1>6 DEF Bootstrap, Advance, Sleep, Fail, ShowNothing, Show, ToolFail
  <2>3. UNCHANGED <<room, reader, base, page, next, out, told, recovered>>
        BY <1>6 DEF Bootstrap, Advance, Sleep, Fail, ShowNothing, Show, ToolFail, history
  <2> QED BY <1>0, <2>1, <2>2, <2>3 DEF room, TypeOK, Inside
<1>7. CASE Correct
  <2>1. {page.gen} \X Missed \subseteq Message
        BY <1>0, AdoptedType, PageFacts
  <2> QED BY <1>0, <1>7, <2>1, AdoptedType DEF Correct, room, TypeOK, Inside
<1>8. CASE Recover
  <2>1. {gen} \X {s \in Since(cursor) : s < page.low} \subseteq Message
        BY <1>0, PageFacts DEF Since
  <2> QED BY <1>0, <1>8, <2>1 DEF Recover, room, TypeOK, Inside
<1>9. CASE Yield \/ Keep
  <2>1. <<page.gen, next>> \in Message
        BY <1>0, <1>9, PageFacts DEF Yield, Keep
  <2>2. out' \in Seq(Message)
    <3>1. out' \in {out, Append(out, <<page.gen, next>>)}
          BY <1>9 DEF Yield, Keep
    <3>2. out \in Seq(Message)
          BY DEF TypeOK
    <3>3. Append(out, <<page.gen, next>>) \in Seq(Message)
          BY <2>1, <3>2, Appended
    <3> QED BY <3>1, <3>2, <3>3
  <2>3. next' = next + 1 /\ UNCHANGED <<room, reader, pc, cursor, base, page, start, told, recovered>>
        BY <1>9 DEF Yield, Keep
  <2> QED BY <1>0, <2>2, <2>3 DEF room, TypeOK, Inside
<1>10. CASE FirstPage
  <2>1. page' \in [low : Nat \ {0}, high : Nat, gen : Nat] /\ page'.high = head /\ page'.gen = gen
        BY <1>0, <1>10, PageParts DEF FirstPage
  <2>2. cursor' \in Nat /\ start' \in Nat
        BY <1>0, <1>10, <2>1 DEF FirstPage, TypeOK
  <2>3. UNCHANGED <<room, reader, base, next, out, told, recovered>> /\ pc' \in {pc, "answered"}
        BY <1>10 DEF FirstPage
  <2> QED BY <1>0, <2>1, <2>2, <2>3 DEF room, TypeOK, Inside
<1>11. CASE Window
  <2>1. {page.gen} \X ((cursor + 1) .. (page.low - 1)) \subseteq Message
    <3>1. page.low <= page.high
          BY <1>0, <1>11 DEF Window, Empty
    <3>2. (cursor + 1) .. (page.low - 1) \subseteq 1 .. page.high
          BY <1>0, <3>1
    <3> QED BY <3>2, PageFacts
  <2> QED BY <1>0, <1>11, <2>1 DEF Window, room, TypeOK, Inside
<1>12. CASE UNCHANGED vars
      BY <1>12 DEF vars, room, history, TypeOK, Inside
<1> QED BY <1>1, <1>2, <1>3, <1>4, <1>5, <1>6, <1>7, <1>8, <1>9, <1>10, <1>11, <1>12
        DEF Next, RoomStep, ReaderStep, Follower, Tool

\* Types, and the bounds of the room's numbers, are kept.
LEMMA TypeHolds == Spec => [](TypeOK /\ Inside)
BY TypeInit, TypeStep, PTL DEF Spec

\* Types are kept.
THEOREM TypeCorrect == Spec => []TypeOK
BY TypeHolds, PTL

-----------------------------------------------------------------------------
(* The reader's contract. *)

\* Everything reported lies behind the page or in it, behind the message the
\* reader looks at, and behind the cursor of its request.
Ordered ==
    /\ pc = "bootstrap" => Reported = {}
    /\ pc \in {"gap", "yield", "keep"} => page.low <= next
    /\ pc = "gap" => next = page.low
    /\ \A m \in Reported :
        /\ m[1] <= page.gen
        /\ m[1] = page.gen =>
            /\ m[2] <= page.high
            /\ pc \in {"poll", "asked", "answered", "sleep"} => m[2] <= cursor
            /\ pc = "asked" /\ page.gen = gen => m[2] <= base
            /\ pc = "answered" => m[2] < page.low
            /\ pc \in {"gap", "yield", "keep"} => m[2] < next

LEMMA ReportedType ==
    ASSUME TypeOK
    PROVE  \A m \in Reported : m[1] \in Nat /\ m[2] \in Nat \ {0}
<1>1. Reported \subseteq Message
      BY DEF TypeOK, Reported, Delivered
<1>2. \A m \in Message : m[1] \in Nat /\ m[2] \in Nat \ {0}
      BY RoomAssumption DEF Message, Generations, Numbers
<1> QED BY <1>1, <1>2

LEMMA OrderedInit == Init => Ordered
<1> SUFFICES ASSUME Init PROVE Ordered
    OBVIOUS
<1>1. Reported = {}
      BY DEF Init, Reported, Delivered
<1> QED BY <1>1 DEF Init, Ordered

\* The steps that report nothing.
LEMMA OrderedQuiet ==
    ASSUME TypeOK, Inside, Ordered, UNCHANGED <<out, told>>,
           \/ RoomStep \/ Ask \/ Answer \/ Bootstrap \/ Recover \/ Advance \/ Sleep \/ Fail
           \/ FirstPage \/ ShowNothing \/ Show \/ ToolFail \/ UNCHANGED vars
    PROVE  Ordered'
<1>0. /\ Reported' = Reported
      /\ \A m \in Reported : m[1] \in Nat /\ m[2] \in Nat \ {0}
      /\ gen \in Nat /\ head \in Nat /\ cursor \in Nat /\ base \in Nat /\ next \in Nat \ {0}
      /\ page.low \in Nat \ {0} /\ page.high \in Nat /\ page.gen \in Nat
      BY ReportedType DEF Reported, Delivered, TypeOK
<1>1. CASE RoomStep
  <2>1. /\ UNCHANGED <<pc, cursor, base, page, next>>
        /\ page.gen = gen' => page.gen = gen
        BY <1>0, <1>1 DEF RoomStep, Post, Expire, Reap, Inside
  <2> QED BY <1>0, <2>1 DEF Ordered
<1>2. CASE Ask
  <2>1. page.gen = gen /\ cursor > head => page.high <= base'
        BY <1>0, <1>2 DEF Ask, Inside
  <2> QED BY <1>0, <1>2, <2>1 DEF Ask, room, history, Ordered
<1>3. CASE Answer
  <2>1. page'.low > base /\ page'.high = head /\ page'.gen = gen
        BY <1>0, <1>3, PageParts DEF Answer
  <2>2. \A m \in Reported : m[1] <= gen
        BY <1>0 DEF Ordered, Inside
  <2>3. \A m \in Reported : m[1] = gen => page.gen = gen
        BY <1>0 DEF Ordered, Inside
  <2>4. \A m \in Reported : m[1] = gen => m[2] <= head /\ m[2] <= cursor /\ m[2] < page'.low
        BY <1>0, <1>3, <2>1, <2>3, PageParts DEF Answer, Ordered, Inside
  <2> QED BY <1>0, <1>3, <2>1, <2>2, <2>4 DEF Answer, room, history, Ordered
<1>4. CASE Bootstrap \/ Recover \/ Sleep \/ Fail \/ ShowNothing \/ ToolFail
  <2>1. UNCHANGED <<gen, base, page, next>>
        BY <1>4 DEF Bootstrap, Recover, Sleep, Fail, ShowNothing, ToolFail, room, history
  <2>2. CASE Bootstrap
        BY <1>0, <2>1, <2>2 DEF Bootstrap, Ordered
  <2>3. CASE Recover
        BY <1>0, <2>1, <2>3 DEF Recover, Ordered
  <2>4. CASE Sleep \/ Fail \/ ShowNothing \/ ToolFail
        BY <1>0, <2>1, <2>4 DEF Sleep, Fail, ShowNothing, ToolFail, Ordered
  <2> QED BY <1>4, <2>2, <2>3, <2>4
<1>5. CASE Advance
  <2>1. cursor' \in Nat /\ cursor' >= page.high /\ UNCHANGED <<gen, base, page, next>> /\ pc' \in {"sleep", "poll"}
        BY <1>0, <1>5 DEF Advance, Advanced, Larger, room
  <2> QED BY <1>0, <2>1 DEF Ordered
<1>6. CASE FirstPage
  <2>1. Reported = {}
        BY <1>6 DEF FirstPage, Ordered
  <2>2. pc' \in {"bootstrap", "answered"}
        BY <1>6 DEF FirstPage
  <2> QED BY <1>0, <2>1, <2>2 DEF Ordered
<1>7. CASE Show
  <2>1. cursor' = next - 1 /\ UNCHANGED <<gen, base, page, next>> /\ pc = "keep" /\ pc' = "poll"
        BY <1>7 DEF Show, NextSince, room
  <2> QED BY <1>0, <2>1 DEF Ordered
<1>8. CASE UNCHANGED vars
      BY <1>0, <1>8 DEF vars, room, Ordered
<1> QED BY <1>1, <1>2, <1>3, <1>4, <1>5, <1>6, <1>7, <1>8

\* The cursor that Correct adopts is not behind anything reported.
LEMMA AdoptedIsAhead ==
    ASSUME TypeOK, Ordered, pc = "answered", Missed # {}
    PROVE  \A m \in Reported : m[1] = page.gen => m[2] <= Adopted
<1>1. /\ \A m \in Reported : m[2] \in Nat
      /\ cursor \in Nat /\ page.low \in Nat \ {0} /\ page.high \in Nat
      BY ReportedType DEF TypeOK
<1>2. Adopted = cursor
      BY <1>1 DEF Missed, Adopted, Empty
<1> QED BY <1>1, <1>2 DEF Ordered

\* The steps that report: each is an allowed one, and keeps the order.
LEMMA SkipStep ==
    ASSUME TypeOK, Inside, Ordered, Correct \/ Window
    PROVE  Ordered' /\ [Contract!Next]_<<out, told>>
<1>0. /\ \A m \in Reported : m[1] \in Nat /\ m[2] \in Nat \ {0}
      /\ gen \in Nat /\ head \in Nat /\ cursor \in Nat /\ base \in Nat /\ next \in Nat \ {0}
      /\ page.low \in Nat \ {0} /\ page.high \in Nat /\ page.gen \in Generations /\ page.gen \in Nat
      BY ReportedType, PageFacts DEF TypeOK
<1>1. PICK first \in Nat \ {0} :
          /\ told' = told \cup ({page.gen} \X (first .. (page.low - 1)))
          /\ first .. (page.low - 1) # {} => page.low <= page.high
          /\ first .. (page.low - 1) # {} =>
                 \A m \in Reported : m[1] = page.gen => m[2] < first
  <2>1. CASE Correct /\ Missed # {}
    <3>1. Missed = (Adopted + 1) .. (page.low - 1) /\ page.low <= page.high
          BY <1>0, <2>1 DEF Missed, Empty
    <3>2. \A m \in Reported : m[1] = page.gen => m[2] < Adopted + 1
          BY <1>0, <2>1, AdoptedType, AdoptedIsAhead DEF Correct
    <3>3. Adopted + 1 \in Nat \ {0}
          BY AdoptedType
    <3> QED BY <2>1, <3>1, <3>2, <3>3 DEF Correct
  <2>2. CASE Correct /\ Missed = {}
    <3>1. told' = told /\ page.low .. (page.low - 1) = {}
          BY <1>0, <2>2 DEF Correct
    <3> QED BY <1>0, <3>1
  <2>3. CASE Window
    <3>1. page.low <= page.high /\ cursor + 1 \in Nat \ {0}
          BY <1>0, <2>3 DEF Window, Empty
    <3>2. \A m \in Reported : m[1] = page.gen => m[2] < cursor + 1
          BY <1>0, <2>3 DEF Window, Ordered
    <3> QED BY <2>3, <3>1, <3>2 DEF Window
  <2> QED BY <2>1, <2>2, <2>3
<1>2. /\ pc = "answered" /\ pc' \in {"gap", "yield", "keep"} /\ next' = page.low
      /\ UNCHANGED <<out, page>>
      BY DEF Correct, Window
<1>3. /\ \A m \in Reported' : m \in Reported \/ (m[1] = page.gen /\ m[2] \in first .. (page.low - 1))
      /\ \A m \in Reported' : m \in Reported \/ m[2] < page.low
      BY <1>0, <1>1, <1>2 DEF Reported, Delivered
<1>4. Ordered'
  <2>1. \A m \in Reported' : /\ m[1] <= page.gen
                             /\ m[1] = page.gen => m[2] <= page.high /\ m[2] < page.low
        BY <1>0, <1>1, <1>2, <1>3 DEF Ordered
  <2> QED BY <1>0, <1>2, <2>1 DEF Ordered
<1>5. CASE first .. (page.low - 1) = {}
  <2>1. {page.gen} \X (first .. (page.low - 1)) = {}
        BY <1>5
  <2> QED BY <1>1, <1>2, <1>4, <2>1
<1>6. CASE first .. (page.low - 1) # {}
  <2>1. first \in Numbers /\ page.low - 1 \in Numbers
    <3>1. first <= page.low - 1 /\ page.low - 1 <= MaxSeq /\ MaxSeq \in Nat
          BY <1>0, <1>1, <1>6, RoomAssumption DEF Inside
    <3> QED BY <1>0, <3>1 DEF Numbers
  <2>2. \A m \in Reported : Contract!Before(m, <<page.gen, first>>)
        BY <1>0, <1>1, <1>6 DEF Ordered, Contract!Before
  <2>3. Contract!Skip(page.gen, first, page.low - 1)
        BY <1>1, <1>2, <2>2 DEF Contract!Skip, Contract!Reported, Reported, Delivered
  <2> QED BY <1>0, <1>4, <2>1, <2>3 DEF Contract!Next
<1> QED BY <1>5, <1>6

LEMMA DeliverStep ==
    ASSUME TypeOK, Inside, Ordered, Yield \/ Keep
    PROVE  Ordered' /\ [Contract!Next]_<<out, told>>
<1>0. /\ \A m \in Reported : m[1] \in Nat /\ m[2] \in Nat \ {0}
      /\ gen \in Nat /\ head \in Nat /\ cursor \in Nat /\ base \in Nat /\ next \in Nat \ {0}
      /\ page.low \in Nat \ {0} /\ page.high \in Nat /\ page.gen \in Generations /\ page.gen \in Nat
      BY ReportedType, PageFacts DEF TypeOK
<1>1. /\ pc \in {"yield", "keep"} /\ next <= page.high /\ next' = next + 1
      /\ UNCHANGED <<gen, pc, cursor, base, page, told>>
      /\ out' \in {out, Append(out, <<page.gen, next>>)}
      BY DEF Yield, Keep, room
<1>2. \A m \in Reported : Contract!Before(m, <<page.gen, next>>)
      BY <1>0, <1>1 DEF Ordered, Contract!Before
<1>3. <<page.gen, next>> \in Message /\ out \in Seq(Message)
      BY <1>0, <1>1, PageFacts DEF TypeOK
<1>4. Reported' \subseteq Reported \cup {<<page.gen, next>>}
  <2>1. CASE out' = out
        BY <1>1, <2>1 DEF Reported, Delivered
  <2>2. CASE out' = Append(out, <<page.gen, next>>)
    <3>1. Delivered' = Delivered \cup {<<page.gen, next>>}
          BY <1>3, <2>2, Appended DEF Delivered
    <3> QED BY <1>1, <3>1 DEF Reported
  <2> QED BY <1>1, <2>1, <2>2
<1>5. Ordered'
  <2>1. \A m \in Reported' : /\ m[1] <= page.gen
                             /\ m[1] = page.gen => m[2] <= page.high /\ m[2] < next + 1
        BY <1>0, <1>1, <1>4 DEF Ordered
  <2> QED BY <1>0, <1>1, <2>1 DEF Ordered
<1>6. CASE out' = out
      BY <1>1, <1>5, <1>6
<1>7. CASE out' = Append(out, <<page.gen, next>>)
  <2>1. Contract!Deliver(<<page.gen, next>>)
        BY <1>1, <1>2, <1>7 DEF Contract!Deliver, Contract!Reported, Reported, Delivered
  <2> QED BY <1>3, <1>5, <2>1 DEF Contract!Next, Message
<1> QED BY <1>1, <1>6, <1>7

LEMMA OrderedStep ==
    TypeOK /\ Inside /\ Ordered /\ [Next]_vars => Ordered' /\ [Contract!Next]_<<out, told>>
<1> SUFFICES ASSUME TypeOK, Inside, Ordered, [Next]_vars
             PROVE  Ordered' /\ [Contract!Next]_<<out, told>>
    OBVIOUS
<1>1. CASE Correct \/ Window
      BY <1>1, SkipStep
<1>2. CASE Yield \/ Keep
      BY <1>2, DeliverStep
<1>3. ASSUME ~(Correct \/ Window \/ Yield \/ Keep)
      PROVE  \/ RoomStep \/ Ask \/ Answer \/ Bootstrap \/ Recover \/ Advance \/ Sleep \/ Fail
             \/ FirstPage \/ ShowNothing \/ Show \/ ToolFail \/ UNCHANGED vars
      BY <1>3 DEF Next, ReaderStep, Follower, Tool
<1>4. CASE ~(Correct \/ Window \/ Yield \/ Keep)
  <2>1. UNCHANGED <<out, told>>
        BY <1>3, <1>4 DEF RoomStep, Post, Expire, Reap, Ask, Answer, Bootstrap, Recover, Advance,
                          Sleep, Fail, FirstPage, ShowNothing, Show, ToolFail, vars, history
  <2> QED BY <1>3, <1>4, <2>1, OrderedQuiet
<1> QED BY <1>1, <1>2, <1>4

\* Every reader delivers in order and once, and never what it skipped: Readers
\* implements ReaderContract.
THEOREM ReadersKeepTheContract == Spec => ReaderSpec
<1>1. Init => Contract!Init
      BY DEF Init, Contract!Init
<1>2. Spec => [][Contract!Next]_<<out, told>>
      BY OrderedInit, OrderedStep, TypeHolds, PTL DEF Spec
<1>3. Spec => ReaderSpec
      BY <1>1, <1>2, PTL DEF Spec, ReaderSpec, Contract!Spec, Contract!vars
<1> QED BY <1>3

-----------------------------------------------------------------------------
(* What a reader has passed. *)

\* What a message behind the cursor may have come to.
Settled(s) ==
    \/ <<0, s>> \in Delivered
    \/ <<0, s>> \in told /\ (reader = "follow" => <<0, s>> \in recovered \/ s < low)
    \/ s <= aged

\* In its first generation: an empty room has aged out, an empty page passes
\* over nothing else, and what lies between the cursor and the message the reader
\* looks at is settled, or was just reported.
Passed ==
    gen = 0 =>
        /\ low > head => aged = head
        /\ pc = "asked" => base <= cursor
        /\ pc = "answered" /\ Empty => page.high <= cursor \/ page.high <= aged
        /\ \A s \in (start + 1) .. cursor : Settled(s)
        /\ pc = "gap" => /\ ~Empty
                         /\ \A s \in (cursor + 1) .. (page.low - 1) : <<0, s>> \in told
        /\ pc \in {"yield", "keep"} =>
               \A s \in (cursor + 1) .. (next - 1) :
                   s > start /\ s <= page.high => Settled(s)
        /\ pc = "keep" => next <= page.high + 1
LEMMA PassedInit == Init => Passed
<1> SUFFICES ASSUME Init PROVE Passed
    OBVIOUS
<1>1. low > head => aged = head
      BY RoomAssumption DEF Init, Larger
<1>2. (start + 1) .. cursor = {}
      BY RoomAssumption DEF Init
<1>3. pc \in {"bootstrap", "poll"}
      BY DEF Init
<1> QED BY <1>1, <1>2, <1>3 DEF Passed

\* What is settled stays so while the room is not recreated.
LEMMA SettledStays ==
    ASSUME TypeOK, Inside, [Next]_vars, gen' = 0
    PROVE  /\ gen = 0 /\ reader' = reader /\ low <= low' /\ aged <= aged'
           /\ told \subseteq told'
           /\ \A s \in Nat : Settled(s) => Settled(s)'
<1>0. /\ gen \in Nat /\ head \in Nat /\ low \in 1 .. head + 1 /\ aged \in 0 .. low - 1
      /\ page.low \in Nat \ {0} /\ page.high \in Nat /\ out \in Seq(Message)
      BY DEF TypeOK
<1>1. CASE RoomStep
  <2>1. /\ gen = 0 /\ low' \in Nat /\ low <= low' /\ aged <= aged' /\ aged' \in Nat
        /\ UNCHANGED <<reader, history>>
        BY <1>0, <1>1, RoomAssumption DEF RoomStep, Post, Expire, Reap, Larger
  <2> QED BY <1>0, <2>1 DEF history, Settled, Delivered
<1>2. CASE ~RoomStep
  <2>1. UNCHANGED <<room, reader>>
        BY <1>2 DEF Next, RoomStep, ReaderStep, Follower, Tool, Ask, Answer, Bootstrap, Correct,
                    Recover, Yield, Advance, Sleep, Fail, FirstPage, ShowNothing, Window, Keep,
                    Show, ToolFail, vars
  <2>2. told \subseteq told' /\ recovered \subseteq recovered'
        BY <1>2 DEF Next, RoomStep, ReaderStep, Follower, Tool, Ask, Answer, Bootstrap, Correct,
                    Recover, Yield, Advance, Sleep, Fail, FirstPage, ShowNothing, Window, Keep,
                    Show, ToolFail, vars, history
  <2>3. Delivered \subseteq Delivered'
    <3>1. CASE Yield \/ Keep
      <4>1. next \in Nat \ {0} /\ next <= page.high
            BY <3>1 DEF Yield, Keep, TypeOK
      <4>2. <<page.gen, next>> \in Message
            BY <4>1, PageFacts
      <4>3. out' \in {out, Append(out, <<page.gen, next>>)}
            BY <3>1 DEF Yield, Keep
      <4>4. CASE out' = out
            BY <4>4 DEF Delivered
      <4>5. CASE out' = Append(out, <<page.gen, next>>)
            BY <1>0, <4>2, <4>5, Appended DEF Delivered
      <4> QED BY <4>3, <4>4, <4>5
    <3>2. CASE ~(Yield \/ Keep)
      <4>1. UNCHANGED out
            BY <1>2, <3>2 DEF Next, RoomStep, ReaderStep, Follower, Tool, Ask, Answer, Bootstrap,
                              Correct, Recover, Advance, Sleep, Fail, FirstPage, ShowNothing,
                              Window, Show, ToolFail, vars, history
      <4> QED BY <4>1 DEF Delivered
    <3> QED BY <3>1, <3>2
  <2> QED BY <1>0, <2>1, <2>2, <2>3 DEF room, Settled
<1> QED BY <1>1, <1>2

LEMMA PassedStep == TypeOK /\ Inside /\ Ordered /\ Passed /\ [Next]_vars => Passed'
<1> SUFFICES ASSUME TypeOK, Inside, Ordered, Passed, [Next]_vars, gen' = 0 PROVE Passed'
    BY DEF Passed
<1>0. /\ gen = 0 /\ page.gen = 0
      /\ head \in Nat /\ low \in 1 .. head + 1 /\ aged \in 0 .. low - 1
      /\ cursor \in Nat /\ base \in Nat /\ next \in Nat \ {0} /\ start \in Nat
      /\ page.low \in Nat \ {0} /\ page.high \in Nat
      BY SettledStays DEF TypeOK, Inside
<1>1. /\ page.high <= head
      /\ low > head => aged = head
      /\ \A s \in (start + 1) .. cursor : Settled(s)
      BY <1>0 DEF Inside, Passed
<1>2. \A s \in Nat : Settled(s) => Settled(s)'
      BY SettledStays
<1>3. CASE RoomStep
  <2>1. /\ low' > head' => aged' = head'
        /\ UNCHANGED <<pc, cursor, base, page, next, history>>
        BY <1>0, <1>1, <1>3, RoomAssumption DEF RoomStep, Post, Expire, Reap, Larger
  <2>2. aged <= aged' /\ aged' \in Nat
        BY <1>0, <1>3, RoomAssumption DEF RoomStep, Post, Expire, Reap
  <2>3. pc = "answered" /\ Empty => page.high <= cursor \/ page.high <= aged'
        BY <1>0, <2>2 DEF Passed
  <2> QED BY <1>0, <1>1, <1>2, <2>1, <2>3 DEF history, Passed, Empty
<1>4. CASE Ask
      BY <1>0, <1>1, <1>2, <1>4 DEF Ask, room, history, Passed
<1>5. CASE Answer
  <2>1. /\ page'.high = head /\ base <= cursor /\ pc' = "answered"
        /\ page'.low > head => base >= head \/ low > head
        /\ UNCHANGED <<room, reader, cursor, base, next, history>>
        BY <1>0, <1>5, PageParts DEF Answer, Passed
  <2>2. Empty' => page'.high <= cursor \/ page'.high <= aged
        BY <1>0, <1>1, <1>5, <2>1, PageParts DEF Empty, Answer
  <2> QED BY <1>0, <1>1, <1>2, <2>1, <2>2 DEF room, history, Passed
<1>6. CASE Bootstrap
  <2>1. (start' + 1) .. cursor' = {} /\ pc' = "poll" /\ UNCHANGED room
        BY <1>0, <1>6 DEF Bootstrap
  <2> QED BY <1>1, <2>1 DEF room, Passed
<1>7. CASE Sleep \/ Fail \/ ShowNothing \/ ToolFail
  <2>1. UNCHANGED <<room, cursor, start>> /\ pc' \in {"poll", "ended"}
        BY <1>7 DEF Sleep, Fail, ShowNothing, ToolFail, history
  <2> QED BY <1>0, <1>1, <1>2, <2>1 DEF room, Passed
<1>8. CASE Correct
  <2>1. /\ cursor' = Adopted /\ next' = page.low /\ UNCHANGED <<room, reader, base, page, start>>
        /\ pc' = IF Missed = {} THEN "yield" ELSE "gap"
        /\ told' = told \cup ({page.gen} \X Missed)
        BY <1>8 DEF Correct
  <2>2. Adopted \in Nat /\ (Adopted <= cursor)
        BY <1>0 DEF Adopted, Empty
  <2>3. \A s \in (start + 1) .. cursor' : Settled(s)'
        BY <1>0, <1>1, <1>2, <2>1, <2>2
  <2>4. CASE Missed # {}
    <3>1. ~Empty /\ Missed = (Adopted + 1) .. (page.low - 1)
          BY <2>4, AdoptedType DEF Missed
    <3> QED BY <1>0, <1>1, <2>1, <2>3, <2>4, <3>1 DEF room, Passed, Empty
  <2>5. CASE Missed = {} /\ ~Empty
    <3>1. page.low - 1 <= Adopted
      <4>1. Adopted + 1 \notin (Adopted + 1) .. (page.low - 1)
            BY <2>5 DEF Missed
      <4> QED BY <1>0, <2>2, <4>1
    <3>2. (cursor' + 1) .. (next' - 1) = {}
          BY <1>0, <2>1, <2>2, <3>1
    <3> QED BY <1>0, <1>1, <2>1, <2>3, <2>5, <3>2 DEF room, Passed
  <2>6. CASE Missed = {} /\ Empty
    <3>1. page.high <= cursor' \/ page.high <= aged
          BY <1>0, <1>8, <2>1, <2>6 DEF Correct, Adopted, Passed
    <3>2. \A s \in (cursor' + 1) .. (next' - 1) : s <= page.high => Settled(s)'
          BY <1>0, <2>1, <2>2, <3>1 DEF room, Settled
    <3> QED BY <1>0, <1>1, <2>1, <2>3, <2>6, <3>2 DEF room, Passed
  <2> QED BY <2>4, <2>5, <2>6
<1>9. CASE Recover
  <2>1. /\ pc = "gap" /\ pc' = "yield" /\ next = page.low
        /\ UNCHANGED <<room, reader, cursor, base, page, next, start, told>>
        /\ recovered' = recovered \cup ({gen} \X {s \in Since(cursor) : s < page.low})
        BY <1>9 DEF Recover, Ordered
  <2>2. ~Empty /\ \A s \in (cursor + 1) .. (page.low - 1) : <<0, s>> \in told
        BY <1>0, <2>1 DEF Passed
  <2>3. \A s \in (cursor + 1) .. (page.low - 1) : Settled(s)'
    <3>1. ASSUME NEW s \in (cursor + 1) .. (page.low - 1), ~(s < low)
          PROVE  <<0, s>> \in recovered'
      <4>1. s \in Since(cursor) /\ s < page.low
            BY <1>0, <1>1, <2>2, <3>1 DEF Since, Empty
      <4> QED BY <1>0, <2>1, <4>1
    <3> QED BY <2>1, <2>2, <3>1 DEF room, Settled
  <2> QED BY <1>0, <1>1, <1>2, <2>1, <2>3 DEF room, Passed
<1>10. CASE Yield \/ Keep
  <2>1. /\ pc \in {"yield", "keep"} /\ next <= page.high /\ next' = next + 1
        /\ UNCHANGED <<room, reader, pc, cursor, base, page, start, told, recovered>>
        /\ next > cursor => out' = Append(out, <<page.gen, next>>)
        BY <1>10 DEF Yield, Keep
  <2>2. ASSUME NEW s \in Nat, s = next, next > cursor PROVE Settled(s)'
    <3>1. <<page.gen, next>> \in Message /\ out \in Seq(Message)
          BY <1>0, <2>1, PageFacts DEF TypeOK
    <3>2. out' = Append(out, <<page.gen, next>>)
          BY <2>1, <2>2
    <3>3. Delivered' = Delivered \cup {<<page.gen, next>>}
          BY <3>1, <3>2, Appended DEF Delivered
    <3> QED BY <1>0, <2>2, <3>3 DEF Settled
  <2>3. \A s \in (cursor + 1) .. (next' - 1) : s > start /\ s <= page.high => Settled(s)'
    <3>1. ASSUME NEW s \in (cursor + 1) .. (next' - 1), s > start, s <= page.high
          PROVE  Settled(s)'
      <4>1. CASE s = next
            BY <1>0, <2>2, <3>1, <4>1
      <4>2. CASE s # next
        <5>1. s \in (cursor + 1) .. (next - 1) /\ s \in Nat
              BY <1>0, <2>1, <3>1, <4>2
        <5>2. Settled(s)
              BY <1>0, <2>1, <3>1, <5>1 DEF Passed
        <5> QED BY <1>2, <5>1, <5>2
      <4> QED BY <4>1, <4>2
    <3> QED BY <3>1
  <2> QED BY <1>0, <1>1, <1>2, <2>1, <2>3 DEF room, Passed
<1>11. CASE Advance \/ Show
  <2>1. /\ pc \in {"yield", "keep"} /\ pc' \in {"sleep", "poll"}
        /\ UNCHANGED <<room, reader, base, page, next, history>>
        /\ cursor' \in Nat /\ (cursor' > cursor => cursor' < next /\ cursor' <= page.high)
        BY <1>0, <1>11 DEF Advance, Advanced, Larger, Show, NextSince, Passed
  <2>2. \A s \in (start + 1) .. cursor' : Settled(s)
    <3>1. ASSUME NEW s \in (start + 1) .. cursor' PROVE Settled(s)
      <4>1. CASE s <= cursor
            BY <1>0, <1>1, <2>1, <3>1, <4>1
      <4>2. CASE s > cursor
        <5>1. s \in (cursor + 1) .. (next - 1) /\ s > start /\ s <= page.high
              BY <1>0, <2>1, <3>1, <4>2
        <5> QED BY <1>0, <2>1, <5>1 DEF Passed
      <4> QED BY <1>0, <3>1, <4>1, <4>2
    <3> QED BY <3>1
  <2>3. \A s \in (start' + 1) .. cursor' : Settled(s)'
        BY <1>0, <1>2, <2>1, <2>2 DEF history
  <2> QED BY <1>0, <1>1, <2>1, <2>3 DEF room, Passed
<1>12. CASE FirstPage
  <2>1. page'.high = head /\ page'.low \in Nat \ {0} /\ page'.low >= low
        /\ UNCHANGED <<room, reader, base, next, out, told, recovered>> /\ pc = "bootstrap"
        BY <1>0, <1>12, PageParts DEF FirstPage
  <2>2. page'.low > head => low > head
        BY <1>0, <1>12, PageParts DEF FirstPage
  <2>3. CASE low > head
        BY <1>0, <1>1, <1>2, <1>12, <2>1, <2>3 DEF FirstPage, room, Passed
  <2>4. CASE ~(low > head)
    <3>1. pc' = "answered" /\ cursor' = page'.low - 1 /\ start' = cursor'
          BY <1>12, <2>4 DEF FirstPage
    <3>2. (start' + 1) .. cursor' = {} /\ ~Empty'
          BY <1>0, <2>1, <2>2, <2>4, <3>1 DEF Empty
    <3> QED BY <1>1, <2>1, <2>4, <3>1, <3>2 DEF room, Passed
  <2> QED BY <2>3, <2>4
<1>13. CASE reader = "tool" /\ Window
  <2>1. /\ pc' = "keep" /\ next' = page.low /\ page.low <= page.high
        /\ told' = told \cup ({page.gen} \X ((cursor + 1) .. (page.low - 1)))
        /\ UNCHANGED <<room, reader, cursor, base, page, start, out, recovered>>
        BY <1>0, <1>13 DEF Window, Empty
  <2>2. \A s \in (cursor + 1) .. (page.low - 1) : Settled(s)'
        BY <1>0, <1>13, <2>1 DEF Settled
  <2> QED BY <1>0, <1>1, <1>2, <2>1, <2>2 DEF room, Passed
<1>14. CASE UNCHANGED vars
      BY <1>0, <1>1, <1>2, <1>14 DEF vars, room, history, Passed, Empty
<1> QED BY <1>3, <1>4, <1>5, <1>6, <1>7, <1>8, <1>9, <1>10, <1>11, <1>12, <1>13, <1>14
        DEF Next, ReaderStep, Follower, Tool

\* Every message behind a cursor was delivered, told and exported, or aged out.
THEOREM EverythingIsAccounted == Spec => []Accounted
<1>1. Spec => [](TypeOK /\ Inside /\ Ordered)
      BY OrderedInit, OrderedStep, TypeHolds, PTL DEF Spec
<1>2. Spec => []Passed
      BY <1>1, PassedInit, PassedStep, PTL DEF Spec
<1>3. Passed => Accounted
      BY DEF Passed, Settled, Accounted
<1> QED BY <1>2, <1>3, PTL
=============================================================================
