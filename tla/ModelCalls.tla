------------------------------ MODULE ModelCalls ------------------------------
(***************************************************************************)
(* The calls that extractions make to a model provider.  One document is   *)
(* read in one thread, by three calls: metadata, items, totals             *)
(* (core/extraction/extractor).  Every call passes the circuit breaker of  *)
(* its provider, which all threads of the worker share, and is repeated    *)
(* after a rate limit (core/extraction/llm_call.py).  A call that is       *)
(* refused or fails leaves an empty result, and the extraction goes on.    *)
(***************************************************************************)
EXTENDS Integers

CONSTANTS
    Documents,   \* the documents of the worker's threads, all of one provider
    Threshold,   \* CircuitBreaker.FAILURE_THRESHOLD
    MaxRetries   \* max_retries: requests of one call

ASSUME CallConstants == Threshold \in Nat \ {0} /\ MaxRetries \in Nat \ {0}

VARIABLES
    breaker,    \* state
    failures,   \* failure_count
    cooled,     \* COOLDOWN_SECS have passed since opened_at
    turn,       \* document -> the call it is at; TotalsCall + 1 at the end
    thread,     \* document -> "asking", "sending" or "waiting"
    attempt,    \* document -> attempt of that call
    wasted      \* document -> requests sent since the breaker last opened

callVars == <<breaker, failures, cooled, turn, thread, attempt, wasted>>

TotalsCall == 3

CallsInit ==
    /\ breaker = "closed" /\ failures = 0 /\ cooled = FALSE
    /\ turn = [d \in Documents |-> 1]
    /\ thread = [d \in Documents |-> "asking"]
    /\ attempt = [d \in Documents |-> 0]
    /\ wasted = [d \in Documents |-> 0]

EndCall(d) ==
    /\ turn' = [turn EXCEPT ![d] = @ + 1]
    /\ thread' = [thread EXCEPT ![d] = "asking"]
    /\ attempt' = [attempt EXCEPT ![d] = 0]

(* allow_request: half open after the cooldown.                            *)
Allowed == breaker # "open" \/ cooled

Allow(d) ==
    /\ turn[d] <= TotalsCall /\ thread[d] = "asking" /\ Allowed
    /\ breaker' = IF breaker = "open" THEN "half_open" ELSE breaker
    /\ thread' = [thread EXCEPT ![d] = "sending"]
    /\ UNCHANGED <<failures, cooled, turn, attempt, wasted>>

(* CircuitOpenError.                                                       *)
Refuse(d) ==
    /\ turn[d] <= TotalsCall /\ thread[d] = "asking" /\ ~Allowed
    /\ EndCall(d)
    /\ UNCHANGED <<breaker, failures, cooled, wasted>>

(* One request; nothing asks the breaker again before a repetition.        *)
Send(d) ==
    /\ thread[d] = "sending"
    /\ thread' = [thread EXCEPT ![d] = "waiting"]
    /\ wasted' = [wasted EXCEPT ![d] = IF breaker = "open" THEN @ + 1 ELSE @]
    /\ UNCHANGED <<breaker, failures, cooled, turn, attempt>>

(* record_success, in every state of the breaker.                          *)
Succeed(d) ==
    /\ thread[d] = "waiting"
    /\ breaker' = "closed" /\ failures' = 0
    /\ EndCall(d)
    /\ UNCHANGED <<cooled, wasted>>

(* A rate limit, but for the last attempt: sleep, and once more.           *)

\* Mutant: the last attempt is repeated as well.
MayRepeatTheLast(d) == attempt[d] <= MaxRetries - 1

MayRepeat(d) == attempt[d] < MaxRetries - 1

BackOff(d) ==
    /\ thread[d] = "waiting" /\ MayRepeat(d)
    /\ thread' = [thread EXCEPT ![d] = "sending"]
    /\ attempt' = [attempt EXCEPT ![d] = @ + 1]
    /\ UNCHANGED <<breaker, failures, cooled, turn, wasted>>

(* record_failure: a server error, or a rate limit on the last attempt.    *)
Fail(d) ==
    /\ thread[d] = "waiting"
    /\ failures' = failures + 1
    /\ IF breaker = "half_open" \/ failures' >= Threshold
       THEN /\ breaker' = "open" /\ cooled' = FALSE
            /\ wasted' = IF breaker = "open" THEN wasted ELSE [e \in Documents |-> 0]
       ELSE UNCHANGED <<breaker, cooled, wasted>>
    /\ EndCall(d)

(* Any other error is raised without a record.                             *)
Reject(d) ==
    /\ thread[d] = "waiting"
    /\ EndCall(d)
    /\ UNCHANGED <<breaker, failures, cooled, wasted>>

CoolDown ==
    /\ breaker = "open" /\ ~cooled
    /\ cooled' = TRUE
    /\ UNCHANGED <<breaker, failures, turn, thread, attempt, wasted>>

CallStep(d) ==
    Allow(d) \/ Refuse(d) \/ Send(d) \/ Succeed(d) \/ BackOff(d) \/ Fail(d) \/ Reject(d)

CallsNext == CoolDown \/ \E d \in Documents : CallStep(d)

CallsSpec == CallsInit /\ [][CallsNext]_callVars
-------------------------------------------------------------------------------
CallsTypeOK ==
    /\ breaker \in {"closed", "open", "half_open"} /\ failures \in Nat /\ cooled \in BOOLEAN
    /\ turn \in [Documents -> 1..TotalsCall + 1]
    /\ thread \in [Documents -> {"asking", "sending", "waiting"}]
    /\ attempt \in [Documents -> Nat] /\ wasted \in [Documents -> Nat]

(* "fails fast instead of burning retries across every invoice in a        *)
(* batch": although a call in flight goes on repeating its request when    *)
(* the breaker opens, and late answers of other threads close and reopen   *)
(* it, no document sends more than one call's requests to a provider that  *)
(* is known to be down; and the breaker is closed exactly as long as the   *)
(* failures since the last success are fewer than the threshold.           *)
OutageIsBounded ==
    /\ \A d \in Documents : wasted[d] <= MaxRetries
    /\ breaker = "closed" <=> failures < Threshold
===============================================================================
