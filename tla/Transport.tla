------------------------------ MODULE Transport ------------------------------
(***************************************************************************)
(* Transport._request (src/technocore/transport.py): every request of the  *)
(* client, with its attempts, its two connection openers (IPv4 only, then  *)
(* dual stack), the opener remembered after the first answer, and the rule *)
(* that a write that may have been executed is never sent again.           *)
(*                                                                         *)
(* One action per way opener.open() and response.read() can end.  The      *)
(* network and the service are external; that a 5xx, a 429 or a 408 means  *)
(* nothing was executed is what is_retryable's docstring relies on.        *)
(***************************************************************************)
EXTENDS Naturals, Sequences

CONSTANTS Attempts,      \* attempts
          PreferV4,      \* prefer_ipv4
          Backoff,       \* backoff, in seconds
          RetryAfters,   \* values of a Retry-After header, 0 for none
          MaxRetryAfter, \* MAX_RETRY_AFTER
          MaxRequests    \* bound: requests made of one Transport

ASSUME TransportAssumption ==
    /\ Attempts \in Nat \ {0} /\ PreferV4 \in BOOLEAN
    /\ Backoff \in Nat /\ MaxRetryAfter \in Nat /\ RetryAfters \subseteq Nat
    /\ MaxRequests \in Nat

VARIABLES latched,       \* _working_opener, "none" before the first answer
          kind,          \* "read" (idempotent) or "write"
          pc,            \* "idle", "open", "sleep" or "done"
          attempt,       \* the loop variable
          openers,       \* the openers left in this attempt
          lastError,     \* last_error: "none" or "http"
          retryAfter,    \* last_error.retry_after
          result,        \* what _request returned or raised
          sent,          \* history: opener.open calls of this request
          executed,      \* history: times the service executed this request
          slept,         \* history: seconds spent in _sleep
          last,          \* history: how the last opener.open ended
          wasLatched,    \* history: latched when the request began
          requests       \* requests begun

request == <<kind, wasLatched, requests>>
vars == <<latched, kind, pc, attempt, openers, lastError, retryAfter, result,
          sent, executed, slept, last, wasLatched, requests>>

Max2(a, b) == IF a > b THEN a ELSE b
Min2(a, b) == IF a < b THEN a ELSE b

\* _openers
Openers(k) ==
    IF latched # "none" THEN <<latched>>
    ELSE IF ~PreferV4 THEN <<"default">>
    ELSE IF k = "write" THEN <<"v4">>
    ELSE <<"v4", "default">>

\* Mutation: Retry-After has no cap.
MutDelay == Max2(Backoff * (attempt + 1), retryAfter)

\* _delay: linear backoff, or Retry-After up to its cap if that is longer.
Delay == Max2(Backoff * (attempt + 1), Min2(retryAfter, MaxRetryAfter))

Init ==
    /\ latched = "none" /\ kind = "read" /\ pc = "idle" /\ attempt = 0
    /\ openers = <<>> /\ lastError = "none" /\ retryAfter = 0 /\ result = "none"
    /\ sent = 0 /\ executed = 0 /\ slept = 0 /\ last = "none"
    /\ wasLatched = "none" /\ requests = 0

\* A read is a get(); a write is _write(), a GET with idempotent=False or a POST.
Kinds == {"read", "write"}

Start(k) ==
    /\ pc \in {"idle", "done"} /\ requests < MaxRequests
    /\ kind' = k /\ pc' = "open" /\ attempt' = 0 /\ openers' = Openers(k)
    /\ lastError' = "none" /\ retryAfter' = 0 /\ result' = "none"
    /\ sent' = 0 /\ executed' = 0 /\ slept' = 0 /\ last' = "none"
    /\ wasLatched' = latched /\ requests' = requests + 1
    /\ UNCHANGED latched

\* A POST whose body is over MAX_POST_BYTES is not sent: TooLargeError.
RefuseUnsent ==
    /\ pc \in {"idle", "done"} /\ requests < MaxRequests
    /\ kind' = "write" /\ pc' = "done" /\ attempt' = 0 /\ openers' = <<>>
    /\ lastError' = "none" /\ retryAfter' = 0 /\ result' = "large"
    /\ sent' = 0 /\ executed' = 0 /\ slept' = 0 /\ last' = "none"
    /\ wasLatched' = latched /\ requests' = requests + 1
    /\ UNCHANGED latched

\* The request goes out on the next opener and ends in the way named.
Opens(event) ==
    /\ pc = "open"
    /\ sent' = sent + 1
    /\ last' = event
    /\ UNCHANGED <<request, slept>>

Finish(how) == pc' = "done" /\ result' = how /\ openers' = <<>> /\ UNCHANGED attempt

\* Mutation: one attempt too many.
MutEndAttempt(error) ==
    IF attempt < Attempts
    THEN pc' = "sleep" /\ openers' = <<>> /\ UNCHANGED <<attempt, result>>
    ELSE Finish(IF error = "http" THEN "http" ELSE "transport")

\* The loop over the openers is left: sleep before the next attempt, or raise.
EndAttempt(error) ==
    IF attempt < Attempts - 1
    THEN pc' = "sleep" /\ openers' = <<>> /\ UNCHANGED <<attempt, result>>
    ELSE Finish(IF error = "http" THEN "http" ELSE "transport")

\* The service acts on the request, or has no part in it.
Executes == executed' = executed + 1
Ignores == UNCHANGED executed

\* A 2xx answer: text is returned, a body over the cap raises TooLargeError
\* before the opener is remembered.
Answer ==
    /\ Opens("answer")
    /\ Executes
    /\ \/ Finish("text") /\ latched' = Head(openers)
       \/ Finish("large") /\ UNCHANGED latched
    /\ UNCHANGED <<lastError, retryAfter>>

\* Any 4xx but 408 and 429: the typed error is raised at once.
Refuse ==
    /\ Opens("refuse") /\ Ignores
    /\ latched' = Head(openers)
    /\ Finish("http")
    /\ UNCHANGED <<lastError, retryAfter>>

\* A redirect to another scheme or host ends like a refusal.
Redirect ==
    /\ Opens("redirect") /\ Ignores
    /\ latched' = Head(openers)
    /\ Finish("http")
    /\ UNCHANGED <<lastError, retryAfter>>

\* 5xx, 429, 408: the service did nothing, so even a write tries again.
Decline ==
    /\ Opens("decline") /\ Ignores
    /\ latched' = Head(openers)
    /\ lastError' = "http"
    /\ retryAfter' \in RetryAfters
    /\ EndAttempt("http")

\* exc.read() of an HTTPError fails in the except arm: nothing catches it.
ErrorBodyLost ==
    /\ Opens("errorbody") /\ Ignores
    /\ latched' = Head(openers)
    /\ Finish("oserror")
    /\ UNCHANGED <<lastError, retryAfter>>

\* Mutation: a write is tried again like a read.
MutConnectionError ==
    /\ IF Len(openers) > 1
       THEN openers' = Tail(openers) /\ UNCHANGED <<pc, attempt, result>>
       ELSE EndAttempt(lastError)
    /\ UNCHANGED <<latched, lastError, retryAfter>>

\* Mutation: a write raises the error of an earlier attempt.
MutConnectionErrorAsLast ==
    /\ IF kind = "write" THEN Finish(IF lastError = "http" THEN "http" ELSE "transport")
       ELSE IF Len(openers) > 1
       THEN openers' = Tail(openers) /\ UNCHANGED <<pc, attempt, result>>
       ELSE EndAttempt(lastError)
    /\ UNCHANGED <<latched, lastError, retryAfter>>

\* The except arm for a connection error: raise for a write, else try the next
\* opener.  A name that does not resolve is an OSError of _connect_v4 or a
\* URLError of urllib, never a socket.gaierror, so that test never holds.
ConnectionError ==
    /\ IF kind = "write" THEN Finish("transport")
       ELSE IF Len(openers) > 1
       THEN openers' = Tail(openers) /\ UNCHANGED <<pc, attempt, result>>
       ELSE EndAttempt(lastError)
    /\ UNCHANGED <<latched, lastError, retryAfter>>

\* No name, no route, no TLS session: nothing reached the service.
CannotConnect ==
    /\ pc = "open"
    /\ \/ Head(openers) = "default" /\ Opens("resolve")
       \/ Opens("connect")
    /\ Ignores
    /\ ConnectionError

\* A timeout or a broken answer: the service may have executed the request.
LoseAnswer ==
    /\ Opens("lost")
    /\ Executes \/ Ignores
    /\ ConnectionError

\* Mutation: a delay above the cap is never slept.
MutSleep ==
    /\ pc = "sleep" /\ retryAfter <= MaxRetryAfter
    /\ slept' = slept + Delay
    /\ attempt' = attempt + 1
    /\ openers' = Openers(kind)
    /\ pc' = "open"
    /\ UNCHANGED <<latched, request, lastError, retryAfter, result, sent, executed, last>>

Sleep ==
    /\ pc = "sleep"
    /\ slept' = slept + Delay
    /\ attempt' = attempt + 1
    /\ openers' = Openers(kind)
    /\ pc' = "open"
    /\ UNCHANGED <<latched, request, lastError, retryAfter, result, sent, executed, last>>

Open == Answer \/ Refuse \/ Redirect \/ Decline \/ ErrorBodyLost \/ CannotConnect \/ LoseAnswer

Next == (\E k \in Kinds : Start(k)) \/ RefuseUnsent \/ Open \/ Sleep

Spec == Init /\ [][Next]_vars

\* urlopen returns or times out, sleep returns.
FairSpec == Spec /\ WF_vars(Open) /\ WF_vars(Sleep)

-----------------------------------------------------------------------------
(* Properties. *)

TypeOK ==
    /\ latched \in {"none", "v4", "default"} /\ wasLatched \in {"none", "v4", "default"}
    /\ kind \in Kinds
    /\ pc \in {"idle", "open", "sleep", "done"}
    /\ attempt \in 0 .. Attempts - 1
    /\ openers \in {<<>>, <<"v4">>, <<"default">>, <<"v4", "default">>}
    /\ lastError \in {"none", "http"} /\ retryAfter \in Nat
    /\ result \in {"none", "text", "large", "http", "transport", "oserror"}
    /\ sent \in Nat /\ executed \in Nat /\ slept \in Nat /\ requests \in Nat

\* No retry and no fallback ever makes the service execute a write twice
\* ("duplicate identical messages seconds apart", docstring of get).
WriteExecutedAtMostOnce == kind = "write" => executed <= 1

\* A write that returned was executed, one that ended in an HTTP error was not.
\* A TransportError leaves it open, and so does a TooLargeError, which is raised
\* for a body that was not sent and for an answer that was too long.
WriteResultIsTrue ==
    kind = "write" => /\ result = "text" => executed = 1
                      /\ result = "http" => executed = 0

\* What one call costs the service: a request per attempt, and a second one
\* per attempt only for a read made before any answer.
SendsAreBounded ==
    sent <= IF kind = "read" /\ wasLatched = "none" THEN 2 * Attempts ELSE Attempts

\* A call sleeps between attempts only, never longer than backoff or the
\* capped Retry-After, whatever header the service sends.
SleepIsBounded ==
    slept <= (Attempts - 1) * Max2(Backoff * (Attempts - 1), MaxRetryAfter)

\* What one call can cost the service and its caller.
CallIsBounded == SendsAreBounded /\ SleepIsBounded

\* The opener that was answered first serves every later request.
LatchIsForever == [][latched # "none" => latched' = latched]_vars

\* Every request comes to an end.
RequestsEnd == pc = "open" ~> pc = "done"

\* transport.py:224 "Return the response body as text, or raise a typed error".
ResultIsTyped == result # "oserror"
=============================================================================
