-------------------------- MODULE Transport_proofs --------------------------
(***************************************************************************)
(* Proofs about Transport, for any number of attempts, backoff, caps and   *)
(* headers.                                                                *)
(*                                                                         *)
(* IInv has three parts.  Route: while a request is open it has an opener  *)
(* left, the remembered one and no other once there is one.  Once: a write *)
(* that goes on was not executed, and one that is over tells the truth.    *)
(* Costs: what was sent and slept so far fits the attempts made so far.    *)
(***************************************************************************)
EXTENDS Transport, TLAPS

Route ==
    /\ pc = "open" => openers # <<>>
    /\ pc = "open" /\ latched # "none" => openers = <<latched>>
    /\ pc = "open" /\ kind = "write" => openers # <<"v4", "default">>
    /\ wasLatched # "none" => latched = wasLatched
    /\ pc = "sleep" => attempt < Attempts - 1

Once ==
    /\ kind = "write" /\ pc \in {"open", "sleep"} => executed = 0 /\ result = "none"
    /\ kind = "write" => executed \in {0, 1}
    /\ kind = "write" /\ result = "text" => executed = 1
    /\ kind = "write" /\ result = "http" => executed = 0

\* The requests one attempt may send, and the longest sleep.
PerAttempt == IF kind = "read" /\ wasLatched = "none" THEN 2 ELSE 1
Longest == Max2(Backoff * (Attempts - 1), MaxRetryAfter)

Costs ==
    /\ pc = "open" => sent + Len(openers) <= PerAttempt * (attempt + 1)
    /\ pc # "open" => sent <= PerAttempt * (attempt + 1)
    /\ slept <= attempt * Longest

IInv == TypeOK /\ Route /\ Once /\ Costs

-----------------------------------------------------------------------------
(* Lemmas about openers and delays. *)

\* The openers of an attempt: one, or the IPv4-only one before the other.
LEMMA SomeOpener ==
    ASSUME TypeOK, openers # <<>>
    PROVE  /\ Head(openers) \in {"v4", "default"}
           /\ Len(openers) \in {1, 2}
           /\ Len(openers) > 1 <=> openers = <<"v4", "default">>
           /\ Len(openers) = 1 => openers = <<Head(openers)>>
           /\ openers = <<"v4", "default">> => Tail(openers) = <<"default">>
<1>1. CASE openers = <<"v4">>
      BY <1>1
<1>2. CASE openers = <<"default">>
      BY <1>2
<1>3. CASE openers = <<"v4", "default">>
      BY <1>3
<1> QED BY <1>1, <1>2, <1>3 DEF TypeOK

\* What _openers returns.
LEMMA OpenersType ==
    ASSUME TypeOK, NEW k \in Kinds
    PROVE  /\ Openers(k) \in {<<"v4">>, <<"default">>, <<"v4", "default">>}
           /\ Openers(k) # <<>>
           /\ latched # "none" => Openers(k) = <<latched>>
           /\ k = "write" => Openers(k) # <<"v4", "default">>
           /\ Len(Openers(k)) \in {1, 2}
           /\ (k = "write" \/ latched # "none") => Len(Openers(k)) = 1
<1>1. <<"v4">> # <<>> /\ <<"default">> # <<>> /\ <<"v4", "default">> # <<>>
      OBVIOUS
<1>2. /\ Len(<<"v4">>) = 1 /\ Len(<<"default">>) = 1 /\ Len(<<"v4", "default">>) = 2
      /\ <<"v4">> # <<"v4", "default">> /\ <<"default">> # <<"v4", "default">>
      OBVIOUS
<1>3. CASE latched = "v4"
      BY <1>1, <1>2, <1>3 DEF Openers
<1>4. CASE latched = "default"
      BY <1>1, <1>2, <1>4 DEF Openers
<1>5. CASE latched = "none"
  <2>1. CASE ~PreferV4
        BY <1>1, <1>2, <1>5, <2>1 DEF Openers
  <2>2. CASE PreferV4 /\ k = "write"
        BY <1>1, <1>2, <1>5, <2>2 DEF Openers
  <2>3. CASE PreferV4 /\ k # "write"
        BY <1>1, <1>2, <1>5, <2>3 DEF Openers
  <2> QED BY <2>1, <2>2, <2>3
<1> QED BY <1>3, <1>4, <1>5 DEF TypeOK

\* A delay is a number of seconds up to the longest sleep.
LEMMA DelayBound ==
    ASSUME TypeOK, attempt < Attempts - 1
    PROVE  Delay \in Nat /\ Longest \in Nat /\ Delay <= Longest
<1>1. /\ attempt \in Nat /\ retryAfter \in Nat /\ Backoff \in Nat /\ MaxRetryAfter \in Nat
      /\ Attempts \in Nat \ {0}
      BY TransportAssumption DEF TypeOK
<1>2. /\ Backoff * (attempt + 1) \in Nat /\ Backoff * (Attempts - 1) \in Nat
      /\ Backoff * (attempt + 1) <= Backoff * (Attempts - 1)
  <2>1. PICK rest \in Nat : Attempts - 1 = attempt + 1 + rest
    <3>1. /\ Attempts - 1 - (attempt + 1) \in Nat
          /\ Attempts - 1 = attempt + 1 + (Attempts - 1 - (attempt + 1))
          BY <1>1
    <3> QED BY <3>1
  <2>2. Backoff * (Attempts - 1) = Backoff * (attempt + 1) + Backoff * rest
        BY <1>1, <2>1
  <2>3. Backoff * rest \in Nat /\ Backoff * (attempt + 1) \in Nat
        BY <1>1, <2>1
  <2> QED BY <2>2, <2>3
<1>3. Min2(retryAfter, MaxRetryAfter) \in Nat /\ Min2(retryAfter, MaxRetryAfter) <= MaxRetryAfter
      BY <1>1 DEF Min2
<1> QED BY <1>1, <1>2, <1>3 DEF Delay, Longest, Max2

LEMMA LongestType == Longest \in Nat
<1>1. Backoff * (Attempts - 1) \in Nat /\ MaxRetryAfter \in Nat
      BY TransportAssumption
<1> QED BY <1>1 DEF Longest, Max2

\* What a call may send in its attempts so far.
LEMMA Allowance ==
    ASSUME NEW n \in {1, 2}, NEW a \in Nat
    PROVE  n * (a + 1) \in Nat /\ n * (0 + 1) = n
<1>1. CASE n = 1
      BY <1>1
<1>2. CASE n = 2
      BY <1>2
<1> QED BY <1>1, <1>2

\* The openers of an attempt fit what an attempt may send.
LEMMA Fits ==
    ASSUME NEW m \in {1, 2}, NEW n \in {1, 2}, m = 1 \/ n = 2
    PROVE  m <= n /\ 0 + m = m
OBVIOUS

\* One request more and one opener less.
LEMMA OneMore ==
    ASSUME NEW s \in Nat
    PROVE  (s + 1) + 1 = s + 2
OBVIOUS

-----------------------------------------------------------------------------
LEMMA InitIInv == Init => IInv
<1>1. ASSUME Init PROVE TypeOK
      BY <1>1, TransportAssumption DEF Init, TypeOK, Kinds
<1>2. ASSUME Init PROVE Route /\ Once
      BY <1>2 DEF Init, Route, Once
<1>3. ASSUME Init PROVE Costs
  <2>1. PerAttempt \in {1, 2} /\ 0 * Longest = 0
        BY LongestType DEF PerAttempt
  <2>2. PerAttempt * (0 + 1) \in Nat
        BY <2>1, Allowance
  <2> QED BY <1>3, <2>1, <2>2 DEF Init, Costs
<1> QED BY <1>1, <1>2, <1>3 DEF IInv

-----------------------------------------------------------------------------
(* The beginning of a request. *)

LEMMA StartIInv ==
    ASSUME IInv, NEW k \in Kinds, Start(k)
    PROVE  IInv'
<1>1. TypeOK /\ Route /\ Attempts \in Nat \ {0} /\ k \in {"read", "write"}
      BY TransportAssumption DEF IInv, Kinds
<1>2. /\ openers' = Openers(k) /\ kind' = k /\ wasLatched' = latched /\ latched' = latched
      /\ pc' = "open" /\ sent' = 0 /\ slept' = 0 /\ attempt' = 0 /\ executed' = 0
      /\ result' = "none"
      BY DEF Start
<1>3. TypeOK'
      BY <1>1, OpenersType DEF Start, TypeOK, Kinds
<1>4. Route' /\ Once'
      BY <1>1, <1>2, OpenersType DEF Route, Once
<1>5. Costs'
  <2>1. Longest' = Longest /\ 0 * Longest = 0
        BY LongestType DEF Longest
  <2>2. PerAttempt' \in {1, 2} /\ Len(openers') \in {1, 2} /\ Len(openers') <= PerAttempt'
    <3>1. Len(openers') \in {1, 2}
          BY <1>1, <1>2, OpenersType
    <3>2. CASE k = "write" \/ latched # "none"
      <4>1. Len(openers') = 1
            BY <1>1, <1>2, <3>2, OpenersType
      <4>2. PerAttempt' \in {1, 2}
            BY DEF PerAttempt
      <4> QED BY <4>1, <4>2
    <3>3. CASE k = "read" /\ latched = "none"
      <4>1. PerAttempt' = 2 /\ PerAttempt' \in {1, 2}
            BY <1>2, <3>3 DEF PerAttempt
      <4> QED BY <3>1, <4>1, Fits
    <3> QED BY <1>1, <3>2, <3>3
  <2>4. PerAttempt' * (0 + 1) = PerAttempt' /\ 0 + Len(openers') = Len(openers')
    <3>1. Len(openers') = 1 \/ PerAttempt' = 2
          BY <2>2
    <3> QED BY <2>2, <3>1, Allowance, Fits
  <2> QED BY <1>2, <2>1, <2>2, <2>4 DEF Costs
<1> QED BY <1>3, <1>4, <1>5 DEF IInv

LEMMA RefuseUnsentIInv ==
    ASSUME IInv, RefuseUnsent
    PROVE  IInv'
<1>1. TypeOK /\ Route /\ Attempts \in Nat \ {0}
      BY TransportAssumption DEF IInv
<1>2. TypeOK'
      BY <1>1 DEF RefuseUnsent, TypeOK, Kinds
<1>3. Route' /\ Once'
      BY <1>1 DEF RefuseUnsent, Route, Once
<1>4. Costs'
  <2>1. Longest' = Longest /\ 0 * Longest = 0
        BY LongestType DEF Longest
  <2>2. PerAttempt' \in {1, 2}
        BY DEF PerAttempt
  <2>3. PerAttempt' * (0 + 1) \in Nat
        BY <2>2, Allowance
  <2> QED BY <2>1, <2>3 DEF RefuseUnsent, Costs
<1> QED BY <1>2, <1>3, <1>4 DEF IInv

-----------------------------------------------------------------------------
(* One exchange.  It ends the request, ends the attempt, or leaves the next *)
(* opener of a read.                                                       *)

EndsRequest(how) ==
    /\ pc' = "done" /\ result' = how /\ openers' = <<>> /\ attempt' = attempt

EndsAttempt ==
    /\ pc' = "sleep" /\ openers' = <<>> /\ attempt' = attempt /\ result' = result
    /\ attempt < Attempts - 1

NextOpener ==
    /\ kind = "read" /\ openers = <<"v4", "default">> /\ openers' = <<"default">>
    /\ latched' = latched /\ pc' = pc /\ attempt' = attempt /\ result' = result

Ends(how) == EndsRequest(how) \/ EndsAttempt \/ NextOpener

LEMMA EndAttemptEnds ==
    ASSUME TypeOK, NEW error, EndAttempt(error)
    PROVE  \/ EndsAttempt
           \/ EndsRequest(IF error = "http" THEN "http" ELSE "transport")
<1>1. CASE attempt < Attempts - 1
      BY <1>1 DEF EndAttempt, EndsAttempt
<1>2. CASE ~(attempt < Attempts - 1)
      BY <1>2 DEF EndAttempt, Finish, EndsRequest
<1> QED BY <1>1, <1>2

\* The except arm for a connection error: a write is over.
LEMMA ConnectionErrorEnds ==
    ASSUME TypeOK, openers # <<>>, ConnectionError
    PROVE  /\ UNCHANGED <<latched, lastError, retryAfter>>
           /\ kind = "write" => EndsRequest("transport")
           /\ kind = "read" => Ends("transport") \/ Ends("http")
<1>1. CASE kind = "write"
      BY <1>1 DEF ConnectionError, Finish, EndsRequest
<1>2. CASE kind # "write" /\ Len(openers) > 1
      BY <1>2, SomeOpener DEF ConnectionError, NextOpener, Ends, TypeOK, Kinds
<1>3. CASE kind # "write" /\ ~(Len(openers) > 1)
      BY <1>3, EndAttemptEnds DEF ConnectionError, Ends, TypeOK, Kinds
<1> QED BY <1>1, <1>2, <1>3

\* What an exchange does.
Outcome(how) ==
    /\ UNCHANGED request /\ UNCHANGED slept
    /\ sent' = sent + 1
    /\ executed' \in {executed, executed + 1}
    /\ latched' \in {latched, Head(openers)}
    /\ retryAfter' \in Nat /\ lastError' \in {"none", "http"}
    /\ Ends(how)
    /\ kind = "write" => /\ how = "text" => executed' = executed + 1
                         /\ EndsAttempt \/ how = "http" => executed' = executed

Results == {"none", "text", "large", "http", "transport", "oserror"}

LEMMA OpenOutcome ==
    ASSUME IInv, Open
    PROVE  pc = "open" /\ \E how \in Results : Outcome(how)
<1>1. TypeOK /\ pc = "open" /\ openers # <<>>
      BY DEF IInv, Route, Open, Answer, Refuse, Redirect, Decline, ErrorBodyLost,
         CannotConnect, LoseAnswer, Opens
<1>2. CASE Answer
  <2>1. \/ EndsRequest("text") /\ latched' = Head(openers)
        \/ EndsRequest("large") /\ latched' = latched
        BY <1>2 DEF Answer, Finish, EndsRequest
  <2>2. Outcome("text") \/ Outcome("large")
        BY <1>1, <1>2, <2>1 DEF Answer, Opens, Executes, Outcome, Ends, TypeOK, EndsRequest,
           EndsAttempt
  <2> QED BY <1>1, <2>2 DEF Results
<1>3. CASE Refuse \/ Redirect
  <2>1. Outcome("http")
        BY <1>1, <1>3 DEF Refuse, Redirect, Finish, Opens, Ignores, Outcome, Ends, EndsRequest,
           TypeOK
  <2> QED BY <1>1, <2>1 DEF Results
<1>4. CASE Decline
  <2>1. retryAfter' \in Nat
        BY <1>4, TransportAssumption DEF Decline
  <2>2. EndsAttempt \/ EndsRequest("http")
        BY <1>1, <1>4, EndAttemptEnds DEF Decline
  <2>3. Outcome("http")
        BY <1>1, <1>4, <2>1, <2>2 DEF Decline, Opens, Ignores, Outcome, Ends, TypeOK
  <2> QED BY <1>1, <2>3 DEF Results
<1>5. CASE ErrorBodyLost
  <2>1. Outcome("oserror")
        BY <1>1, <1>5 DEF ErrorBodyLost, Finish, Opens, Ignores, Outcome, Ends, EndsRequest,
           EndsAttempt, TypeOK
  <2> QED BY <1>1, <2>1 DEF Results
<1>6. ASSUME CannotConnect \/ LoseAnswer
      PROVE  \E how \in Results : Outcome(how)
  <2>1. /\ UNCHANGED request /\ UNCHANGED slept /\ sent' = sent + 1
        /\ executed' \in {executed, executed + 1}
        /\ ConnectionError
        BY <1>6 DEF CannotConnect, LoseAnswer, Opens, Executes, Ignores
  <2>2. CASE kind = "write"
    <3>1. EndsRequest("transport") /\ UNCHANGED <<latched, lastError, retryAfter>>
          BY <1>1, <2>1, <2>2, ConnectionErrorEnds
    <3>2. ~EndsAttempt
          BY <3>1 DEF EndsRequest, EndsAttempt
    <3>3. Outcome("transport")
          BY <1>1, <2>1, <3>1, <3>2 DEF Outcome, Ends, TypeOK
    <3> QED BY <3>3 DEF Results
  <2>3. CASE kind = "read"
    <3>1. /\ Ends("transport") \/ Ends("http")
          /\ UNCHANGED <<latched, lastError, retryAfter>>
          BY <1>1, <2>1, <2>3, ConnectionErrorEnds
    <3>2. Outcome("transport") \/ Outcome("http")
          BY <1>1, <2>1, <2>3, <3>1 DEF Outcome, TypeOK
    <3> QED BY <3>2 DEF Results
  <2> QED BY <1>1, <2>2, <2>3 DEF TypeOK, Kinds
<1> QED BY <1>1, <1>2, <1>3, <1>4, <1>5, <1>6 DEF Open

LEMMA OpenIInv ==
    ASSUME IInv, pc = "open", NEW how \in Results, Outcome(how)
    PROVE  IInv'
<1>1. TypeOK /\ Route /\ Once /\ Costs /\ openers # <<>> /\ Attempts \in Nat \ {0}
      BY TransportAssumption DEF IInv, Route
<1>2. /\ kind' = kind /\ wasLatched' = wasLatched /\ requests' = requests /\ slept' = slept
      /\ sent' = sent + 1 /\ attempt' = attempt /\ PerAttempt' = PerAttempt /\ Longest' = Longest
      BY DEF Outcome, request, Ends, EndsRequest, EndsAttempt, NextOpener, PerAttempt, Longest
<1>3. latched # "none" => Head(openers) = latched
      BY <1>1 DEF Route
<1>4. latched' \in {latched, Head(openers)} /\ (latched # "none" => latched' = latched)
      BY <1>3 DEF Outcome
<1>5. TypeOK'
  <2>1. latched' \in {"none", "v4", "default"}
        BY <1>1, <1>4, SomeOpener DEF TypeOK
  <2>2. /\ pc' \in {"idle", "open", "sleep", "done"}
        /\ openers' \in {<<>>, <<"v4">>, <<"default">>, <<"v4", "default">>}
        /\ result' \in Results
        BY <1>1 DEF Outcome, Ends, EndsRequest, EndsAttempt, NextOpener, TypeOK, Results
  <2>3. /\ sent' \in Nat /\ executed' \in Nat
        /\ retryAfter' \in Nat /\ lastError' \in {"none", "http"}
        BY <1>1 DEF Outcome, TypeOK
  <2> QED BY <1>1, <1>2, <2>1, <2>2, <2>3 DEF TypeOK, Results
<1>6. Route'
  <2>1. CASE EndsRequest(how)
        BY <1>1, <1>2, <1>4, <2>1 DEF EndsRequest, Route
  <2>2. CASE EndsAttempt
        BY <1>1, <1>2, <1>4, <2>2 DEF EndsAttempt, Route
  <2>3. CASE NextOpener
    <3>1. /\ <<"default">> # <<>> /\ <<"default">> # <<"v4", "default">>
          /\ <<"v4", "default">> # <<"v4">> /\ <<"v4", "default">> # <<"default">>
          OBVIOUS
    <3>2. latched = "none"
          BY <1>1, <2>3, <3>1 DEF NextOpener, Route, TypeOK
    <3> QED BY <1>1, <1>2, <2>3, <3>1, <3>2 DEF NextOpener, Route
  <2> QED BY <2>1, <2>2, <2>3 DEF Outcome, Ends
<1>7. Once'
  <2>1. CASE kind = "read"
        BY <1>2, <2>1 DEF Once
  <2>2. CASE kind = "write"
    <3>1. executed = 0 /\ executed' \in {0, 1}
          BY <1>1, <2>2 DEF Once, Outcome
    <3>2. CASE EndsRequest(how)
          BY <1>2, <2>2, <3>1, <3>2 DEF Once, Outcome, EndsRequest
    <3>3. CASE EndsAttempt
          BY <1>1, <1>2, <2>2, <3>1, <3>3 DEF Once, Outcome, EndsAttempt
    <3>4. ~NextOpener
          BY <2>2 DEF NextOpener
    <3> QED BY <3>2, <3>3, <3>4 DEF Outcome, Ends
  <2> QED BY <1>1, <2>1, <2>2 DEF TypeOK, Kinds
<1>8. Costs'
  <2>1. Len(openers) \in {1, 2} /\ sent \in Nat /\ PerAttempt * (attempt + 1) \in Nat
    <3>1. PerAttempt \in {1, 2} /\ attempt \in Nat
          BY <1>1 DEF PerAttempt, TypeOK
    <3> QED BY <1>1, <3>1, SomeOpener, Allowance DEF TypeOK
  <2>2. sent + Len(openers) <= PerAttempt * (attempt + 1)
        BY <1>1 DEF Costs
  <2>3. pc' # "open" => sent' <= PerAttempt' * (attempt' + 1)
        BY <1>2, <2>1, <2>2
  <2>4. pc' = "open" => Len(openers') = 1 /\ Len(openers) = 2
    <3>1. pc' = "open" => NextOpener
          BY DEF Outcome, Ends, EndsRequest, EndsAttempt
    <3>2. Len(<<"default">>) = 1 /\ Len(<<"v4", "default">>) = 2
          OBVIOUS
    <3> QED BY <3>1, <3>2 DEF NextOpener
  <2>5. pc' = "open" => sent' + Len(openers') = sent + Len(openers)
    <3>1. sent' = sent + 1 /\ (sent + 1) + 1 = sent + 2
          BY <1>2, <2>1, OneMore
    <3> QED BY <2>4, <3>1
  <2>6. PerAttempt' * (attempt' + 1) = PerAttempt * (attempt + 1)
        BY <1>2
  <2> QED BY <1>1, <1>2, <2>2, <2>3, <2>5, <2>6 DEF Costs
<1> QED BY <1>5, <1>6, <1>7, <1>8 DEF IInv

-----------------------------------------------------------------------------
(* The sleep between two attempts. *)

LEMMA SleepIInv ==
    ASSUME IInv, Sleep
    PROVE  IInv'
<1>1. /\ TypeOK /\ Route /\ Once /\ Costs /\ pc = "sleep" /\ attempt < Attempts - 1
      /\ kind \in Kinds /\ attempt \in Nat /\ Attempts \in Nat \ {0} /\ slept \in Nat /\ sent \in Nat
      BY TransportAssumption DEF IInv, Route, Sleep, TypeOK
<1>2. /\ kind' = kind /\ wasLatched' = wasLatched /\ requests' = requests /\ latched' = latched
      /\ sent' = sent /\ executed' = executed /\ result' = result
      /\ attempt' = attempt + 1 /\ openers' = Openers(kind) /\ pc' = "open"
      /\ slept' = slept + Delay /\ PerAttempt' = PerAttempt /\ Longest' = Longest
      BY DEF Sleep, request, PerAttempt, Longest
<1>3. Delay \in Nat /\ Longest \in Nat /\ Delay <= Longest
      BY <1>1, DelayBound
<1>4. TypeOK'
  <2>1. attempt' \in 0 .. Attempts - 1 /\ slept' \in Nat
        BY <1>1, <1>2, <1>3
  <2> QED BY <1>1, <1>2, <2>1, OpenersType DEF Sleep, TypeOK
<1>5. Route'
      BY <1>1, <1>2, OpenersType DEF Route
<1>6. Once'
      BY <1>1, <1>2 DEF Once
<1>7. Costs'
  <2>1. PerAttempt \in {1, 2}
        BY DEF PerAttempt
  <2>2. Len(Openers(kind)) \in {1, 2} /\ Len(Openers(kind)) <= PerAttempt
    <3>1. Len(Openers(kind)) \in {1, 2}
          BY <1>1, OpenersType
    <3>2. CASE kind = "write" \/ wasLatched # "none"
      <4>1. kind = "write" \/ latched # "none"
            BY <1>1, <3>2 DEF Route
      <4>2. Len(Openers(kind)) = 1
            BY <1>1, <4>1, OpenersType
      <4> QED BY <2>1, <4>2
    <3>3. CASE kind = "read" /\ wasLatched = "none"
      <4>1. PerAttempt = 2
            BY <3>3 DEF PerAttempt
      <4> QED BY <2>1, <3>1, <4>1, Fits
    <3> QED BY <1>1, <3>2, <3>3 DEF Kinds
  <2>3. sent <= PerAttempt * (attempt + 1)
        BY <1>1 DEF Costs
  <2>4. PerAttempt * (attempt + 1 + 1) = PerAttempt * (attempt + 1) + PerAttempt
    <3>1. CASE PerAttempt = 1
          BY <1>1, <3>1
    <3>2. CASE PerAttempt = 2
          BY <1>1, <3>2
    <3> QED BY <2>1, <3>1, <3>2
  <2>5. PerAttempt * (attempt + 1) \in Nat
        BY <1>1, <2>1, Allowance
  <2>6. sent + Len(Openers(kind)) <= PerAttempt * (attempt + 1 + 1)
        BY <1>1, <2>1, <2>2, <2>3, <2>4, <2>5
  <2>7. sent' + Len(openers') <= PerAttempt' * (attempt' + 1)
        BY <1>2, <2>6
  <2>8. slept' <= attempt' * Longest'
    <3>1. slept <= attempt * Longest
          BY <1>1 DEF Costs
    <3>2. (attempt + 1) * Longest = attempt * Longest + Longest /\ attempt * Longest \in Nat
          BY <1>1, <1>3
    <3>3. slept + Delay <= (attempt + 1) * Longest
          BY <1>1, <1>3, <3>1, <3>2
    <3> QED BY <1>2, <3>3
  <2> QED BY <1>2, <2>7, <2>8 DEF Costs
<1> QED BY <1>4, <1>5, <1>6, <1>7 DEF IInv

\* Every step keeps the invariant.
LEMMA NextIInv ==
    ASSUME IInv, [Next]_vars
    PROVE  IInv'
<1>1. CASE UNCHANGED vars
  <2>1. PerAttempt' = PerAttempt /\ Longest' = Longest
        BY <1>1 DEF vars, request, PerAttempt, Longest
  <2>2. Costs'
        BY <1>1, <2>1 DEF vars, IInv, Costs
  <2> QED BY <1>1, <2>2 DEF vars, request, IInv, TypeOK, Route, Once
<1>2. CASE Open
      BY <1>2, OpenOutcome, OpenIInv
<1> QED BY <1>1, <1>2, StartIInv, RefuseUnsentIInv, SleepIInv DEF Next

\* The strengthened invariant of _request.
THEOREM Invariance == Spec => []IInv
<1>1. Init => IInv
      BY InitIInv
<1>2. IInv /\ [Next]_vars => IInv'
      BY NextIInv
<1> QED BY <1>1, <1>2, PTL DEF Spec

-----------------------------------------------------------------------------
\* _request keeps its types.
THEOREM TypeCorrect == Spec => []TypeOK
<1>1. IInv => TypeOK
      BY DEF IInv
<1> QED BY <1>1, Invariance, PTL

\* No retry and no second opener executes a write twice.
THEOREM WritesHappenOnce == Spec => []WriteExecutedAtMostOnce
<1>1. IInv => WriteExecutedAtMostOnce
      BY DEF IInv, Once, WriteExecutedAtMostOnce
<1> QED BY <1>1, Invariance, PTL

\* A write that returned was executed, and one refused by HTTP was not.
THEOREM WriteResultsAreTrue == Spec => []WriteResultIsTrue
<1>1. IInv => WriteResultIsTrue
      BY DEF IInv, Once, WriteResultIsTrue
<1> QED BY <1>1, Invariance, PTL

\* A call sends at most a request per attempt, and a read that had no opener
\* to go by at most two.
THEOREM SendsStayBounded == Spec => []SendsAreBounded
<1>1. IInv => SendsAreBounded
  <2>1. SUFFICES ASSUME IInv PROVE SendsAreBounded
        OBVIOUS
  <2>2. /\ TypeOK /\ attempt \in Nat /\ Attempts \in Nat \ {0} /\ attempt + 1 <= Attempts
        /\ sent \in Nat
        BY <2>1, TransportAssumption DEF IInv, TypeOK
  <2>3. sent <= PerAttempt * (attempt + 1)
    <3>1. CASE pc # "open"
          BY <2>1, <3>1 DEF IInv, Costs
    <3>2. CASE pc = "open"
      <4>1. Len(openers) \in Nat
            BY <2>1, <2>2, <3>2, SomeOpener DEF IInv, Route
      <4>2. PerAttempt \in {1, 2}
            BY DEF PerAttempt
      <4>3. PerAttempt * (attempt + 1) \in Nat
            BY <2>2, <4>2, Allowance
      <4>4. sent + Len(openers) <= PerAttempt * (attempt + 1)
            BY <2>1, <3>2 DEF IInv, Costs
      <4> QED BY <2>2, <4>1, <4>3, <4>4
    <3> QED BY <3>1, <3>2
  <2>4. CASE kind = "read" /\ wasLatched = "none"
        BY <2>2, <2>3, <2>4 DEF PerAttempt, SendsAreBounded
  <2>5. CASE ~(kind = "read" /\ wasLatched = "none")
        BY <2>2, <2>3, <2>5 DEF PerAttempt, SendsAreBounded
  <2> QED BY <2>4, <2>5
<1> QED BY <1>1, Invariance, PTL

\* The sleeps of a call are as long as its backoff and the cap allow.
THEOREM SleepStaysBounded == Spec => []SleepIsBounded
<1>1. IInv => SleepIsBounded
  <2>1. SUFFICES ASSUME IInv PROVE slept <= (Attempts - 1) * Longest
        BY DEF SleepIsBounded, Longest
  <2>2. /\ attempt \in Nat /\ Attempts \in Nat \ {0} /\ attempt <= Attempts - 1
        /\ slept \in Nat /\ Longest \in Nat
        BY <2>1, LongestType, TransportAssumption DEF IInv, TypeOK
  <2>3. slept <= attempt * Longest
        BY <2>1 DEF IInv, Costs
  <2>4. (Attempts - 1) * Longest = attempt * Longest + (Attempts - 1 - attempt) * Longest
        BY <2>2
  <2>5. attempt * Longest \in Nat /\ (Attempts - 1 - attempt) * Longest \in Nat
    <3>1. Attempts - 1 - attempt \in Nat
          BY <2>2
    <3> QED BY <2>2, <3>1
  <2> QED BY <2>2, <2>3, <2>4, <2>5
<1> QED BY <1>1, Invariance, PTL

\* The cost of a call is bounded, for any attempts, backoff and headers.
THEOREM CallsStayBounded == Spec => []CallIsBounded
BY SendsStayBounded, SleepStaysBounded, PTL DEF CallIsBounded

\* The opener that was answered first is never replaced.
THEOREM LatchStays == Spec => LatchIsForever
<1>1. IInv /\ [Next]_vars => [latched # "none" => latched' = latched]_vars
  <2>1. SUFFICES ASSUME IInv, Next, latched # "none" PROVE latched' = latched
        OBVIOUS
  <2>2. CASE Open
    <3>1. pc = "open" /\ latched' \in {latched, Head(openers)}
          BY <2>1, <2>2, OpenOutcome DEF Outcome
    <3>2. Head(openers) = latched
          BY <2>1, <3>1 DEF IInv, Route
    <3> QED BY <3>1, <3>2
  <2> QED BY <2>1, <2>2 DEF Next, Start, RefuseUnsent, Sleep
<1> QED BY <1>1, Invariance, PTL DEF Spec, LatchIsForever
=============================================================================
