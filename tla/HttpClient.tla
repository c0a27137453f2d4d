------------------------------- MODULE HttpClient -------------------------------
(***************************************************************************)
(* HttpClient (core/http_client.cpp): one request of the main thread, with *)
(* its attempts, the back-off between two of them, the waits the server    *)
(* asks for, and the Esc key that the transfer's progress callback polls.  *)
(*                                                                         *)
(* Time is counted in ticks.  No clock is kept: a timer holds what is left *)
(* of a wait, and the dates of a header are distances from now.            *)
(***************************************************************************)
EXTENDS Integers, FiniteSetsExt

CONSTANTS
    MaxRetries,     \* max_retries: 6
    FirstBackoff,   \* backoff_ms of the first retry: 2 seconds
    Timeout,        \* CURLOPT_TIMEOUT of one attempt: 60 seconds
    Responses       \* what the servers may answer

\* A wait a header may state.  "seconds" and "relative" count from now, "date"
\* and "timestamp" are moments, as far from now as n says.
Hint == [kind : {"absent", "malformed", "seconds", "relative", "date", "timestamp"},
         n : Int]

\* after: Retry-After; reset: X-RateLimit-Reset; delays: the durations found in
\* the message and in the details of a Google error; body: what a 2xx carries.
ASSUME HttpAssumption ==
    /\ MaxRetries \in Nat /\ FirstBackoff \in Nat \ {0} /\ Timeout \in Nat
    /\ \A r \in Responses :
          /\ r.code \in 200..599 /\ r.after \in Hint /\ r.reset \in Hint
          /\ r.delays \in SUBSET Nat /\ IsFiniteSet(r.delays)

VARIABLES
    phase,      \* "idle" | "sending" | "sleeping"
    tries,      \* retry_count
    backoff,    \* backoff_ms
    left,       \* ticks left of the attempt, or of the sleep
    abort,      \* abort_requested_
    key,        \* an Esc byte waits on stdin
    answer,     \* of the request: "none" | "ok" | "cancelled" | "failed"
    body,       \* what an "ok" brought
    owed        \* observed: ticks until the last moment the server asked for

httpVars == <<phase, tries, backoff, left, abort, key, answer, body, owed>>

Bodies == {r.body : r \in Responses}
Larger(a, b) == IF a > b THEN a ELSE b

----------------------------------------------------------------------------
(* The waits a server asks for; -1 where it asks for none.                 *)

ParseRetryAfter(h) ==
    CASE h.kind = "seconds" -> h.n
      [] h.kind = "date"    -> Larger(0, h.n)
      [] OTHER              -> -1

ParseXRateLimitReset(h) ==
    CASE h.kind = "timestamp" -> Larger(0, h.n)
      [] h.kind = "relative"  -> h.n
      [] OTHER                -> -1

ParseGoogleRetryDelay(delays) == Max(delays \cup {-1})

Retryable(code) == code >= 500 \/ code = 429

\* Faulty: the first wait found is taken, not the longest.
ExtraWaitFirst(r) ==
    IF ParseRetryAfter(r.after) >= 0 THEN ParseRetryAfter(r.after)
    ELSE Max({ParseGoogleRetryDelay(r.delays),
              IF r.code = 429 THEN ParseXRateLimitReset(r.reset) ELSE -1})

ExtraWait(r) ==
    Max({ParseRetryAfter(r.after), ParseGoogleRetryDelay(r.delays),
         IF r.code = 429 THEN ParseXRateLimitReset(r.reset) ELSE -1})

WaitFor(r) == Larger(backoff, ExtraWait(r))

\* The last of the moments a response names, in ticks from now.
Moments(r) ==
    r.delays \cup {h.n : h \in {h \in {r.after} : h.kind \in {"seconds", "date"}}}
             \cup {h.n : h \in {h \in {r.reset} : r.code = 429 /\ h.kind \in {"relative", "timestamp"}}}

----------------------------------------------------------------------------
HttpInit ==
    /\ phase = "idle" /\ tries = 0 /\ backoff = FirstBackoff /\ left = 0 /\ abort = FALSE /\ key = FALSE
    /\ answer = "none" /\ body = "none" /\ owed = 0

\* Faulty: the abort of an earlier request stays.
RequestAborted ==
    /\ phase' = "sending" /\ tries' = 0 /\ backoff' = FirstBackoff /\ left' = Timeout
    /\ owed' = 0 /\ answer' = "none" /\ body' = "none"
    /\ UNCHANGED <<abort, key>>

\* Post and Get: the abort of an earlier request is forgotten first.
Request ==
    /\ phase' = "sending" /\ tries' = 0 /\ backoff' = FirstBackoff /\ left' = Timeout
    /\ abort' = FALSE /\ owed' = 0 /\ answer' = "none" /\ body' = "none"
    /\ UNCHANGED key

Return(result) ==
    /\ phase' = "idle" /\ answer' = result
    /\ UNCHANGED <<tries, backoff, left, owed>>

Sleep(wait) ==
    /\ phase' = "sleeping" /\ left' = wait
    /\ UNCHANGED <<tries, backoff, answer, body, abort, key>>

\* ProgressCallback, polled while a transfer runs: it takes the Esc byte.
SeeEsc ==
    /\ phase = "sending"
    /\ abort \/ key
    /\ abort' = TRUE
    /\ key' = (abort /\ key)
    /\ Return("cancelled")
    /\ UNCHANGED body

\* The transfer fails or reaches its time limit.
TransferFails ==
    /\ phase = "sending"
    /\ IF tries < MaxRetries
       THEN Sleep(backoff) /\ UNCHANGED owed
       ELSE Return("failed") /\ UNCHANGED <<abort, key, body>>

Respond(r) ==
    /\ phase = "sending"
    /\ CASE r.code < 300 ->
              Return("ok") /\ body' = r.body /\ UNCHANGED <<abort, key>>
         [] Retryable(r.code) /\ tries < MaxRetries ->
              Sleep(WaitFor(r)) /\ owed' = Max(Moments(r) \cup {0})
         [] OTHER -> Return("failed") /\ UNCHANGED <<abort, key, body>>

\* Faulty: the retry is neither counted nor delayed further.
RetryUncounted ==
    /\ phase = "sleeping" /\ left = 0
    /\ phase' = "sending" /\ left' = Timeout
    /\ UNCHANGED <<tries, backoff, abort, key, answer, body, owed>>

\* sleep_for is over: the next attempt.
Retry ==
    /\ phase = "sleeping" /\ left = 0
    /\ phase' = "sending" /\ tries' = tries + 1 /\ backoff' = 2 * backoff /\ left' = Timeout
    /\ UNCHANGED <<abort, key, answer, body, owed>>

\* Nobody polls the key between two attempts or outside a request.
PressEsc ==
    /\ ~key /\ key' = TRUE
    /\ UNCHANGED <<phase, tries, backoff, left, abort, answer, body, owed>>

\* A tick cannot pass the time limit of a transfer.
HttpTick ==
    /\ phase = "sending" => left > 0
    /\ left' = Larger(0, left - 1) /\ owed' = Larger(0, owed - 1)
    /\ UNCHANGED <<phase, tries, backoff, abort, key, answer, body>>

HttpStep == SeeEsc \/ TransferFails \/ Retry \/ \E r \in Responses : Respond(r)

----------------------------------------------------------------------------
HttpTypeOK ==
    /\ phase \in {"idle", "sending", "sleeping"} /\ tries \in 0..MaxRetries
    /\ backoff \in Nat \ {0} /\ left \in Nat /\ owed \in Nat /\ abort \in BOOLEAN /\ key \in BOOLEAN
    /\ answer \in {"none", "ok", "cancelled", "failed"} /\ body \in Bodies \cup {"none"}

(* No attempt leaves before the moment the server's last answer asked for, *)
(* in whichever of the four forms: the longest wait wins (the std::max of  *)
(* ExecuteWithRetry over three parsers and the back-off).                  *)
ServerIsHeard == phase = "sending" => owed = 0
=============================================================================
