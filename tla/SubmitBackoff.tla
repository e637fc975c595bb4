--------------------------- MODULE SubmitBackoff ---------------------------
(***************************************************************************)
(* How long the submit loop sleeps between attempts: the two counters of   *)
(* runSubmitLoop (internal/client/hub.go), the exponential back-off with   *)
(* jitter, and the gateway's Retry-After. HubQueue models where the loop   *)
(* goes after each outcome; here only the outcomes matter.                 *)
(*                                                                         *)
(* A time.Duration is a signed word that wraps around, from -HalfWord to   *)
(* HalfWord - 1 (2^63 in the code); a second is Second units of it (10^9). *)
(***************************************************************************)
EXTENDS Integers, Sequences, SequencesExt

CONSTANTS
    HalfWord,        \* half the values of a time.Duration
    Second,          \* time.Second in its units
    RetryAfterSecs,  \* delay-seconds a gateway may send; 0 stands for none
    MaxAttempts      \* bound: failures in a row without a Retry-After

ASSUME SubmitBackoffAssumption ==
    /\ HalfWord \in Nat \ {0}
    /\ Second \in Nat \ {0}
    /\ RetryAfterSecs \subseteq Nat
    /\ 0 \in RetryAfterSecs
    /\ MaxAttempts \in Nat

VARIABLES
    retryAttempts,
    successesSinceFail,
    backoff,            \* the sleep chosen by the latest failed attempt
    asleep,             \* whether the loop is in that sleep
    recent              \* the outcomes of the latest three attempts

vars == <<retryAttempts, successesSinceFail, backoff, asleep, recent>>

Outcomes == {"success", "disabled", "failure", "retry-after"}

minRetryBackoff == Second
maxRetryBackoff == 60 * Second
MaxRetryAfter == 60 * Second

\* Signed arithmetic of a word.
Word(n) == ((n + HalfWord) % (2 * HalfWord)) - HalfWord

\* minRetryBackoff * (1 << retryAttempts), capped.
ShiftedDelay == Word(minRetryBackoff * 2 ^ retryAttempts)
\* Slip: no cap.
UncappedDelay == ShiftedDelay
CappedDelay == IF ShiftedDelay > maxRetryBackoff THEN maxRetryBackoff ELSE ShiftedDelay

\* jitter.Duration: [0, max), and 0 for a max that is not positive.
Jitter(max) == IF max <= 0 THEN {0} ELSE 0 .. max - 1

\* Slip: the whole delay is random.
FullJitter(delay) == Jitter(delay)
\* Half the delay, and a random part of the other half.
HalfJitter(delay) == {(delay \div 2) + j : j \in Jitter(delay \div 2)}

\* parseRetryAfter, then capRetryAfter.
RetryAfter(secs) ==
    LET d == Word(secs * Second) IN IF d > MaxRetryAfter THEN MaxRetryAfter ELSE d

Remember(outcome) ==
    recent' = IF Len(recent) < 3 THEN Append(recent, outcome)
                                 ELSE Append(Tail(recent), outcome)

Init ==
    /\ retryAttempts = 0
    /\ successesSinceFail = 0
    /\ backoff = 0
    /\ asleep = FALSE
    /\ recent = <<>>

\* The third success in a row resets the back-off, and the streak with it.
Success ==
    /\ ~asleep
    /\ IF successesSinceFail + 1 >= 3
       THEN /\ retryAttempts' = 0
            /\ successesSinceFail' = 0
       ELSE /\ successesSinceFail' = successesSinceFail + 1
            /\ UNCHANGED retryAttempts
    /\ Remember("success")
    /\ UNCHANGED <<backoff, asleep>>

\* ErrMetricsDisabled: both counters start over, and nothing is slept.
Disabled ==
    /\ ~asleep
    /\ successesSinceFail' = 0
    /\ retryAttempts' = 0
    /\ Remember("disabled")
    /\ UNCHANGED <<backoff, asleep>>

\* A failure whose answer carried a usable Retry-After: it decides the sleep
\* and leaves retryAttempts alone.
FailureRetryAfter ==
    /\ ~asleep
    /\ \E secs \in RetryAfterSecs :
           /\ RetryAfter(secs) > 0
           /\ backoff' = RetryAfter(secs)
    /\ successesSinceFail' = 0
    /\ asleep' = TRUE
    /\ Remember("retry-after")
    /\ UNCHANGED retryAttempts

\* Slip: the streak survives a failure.
FailureKeepsStreak ==
    /\ ~asleep
    /\ \E secs \in RetryAfterSecs : RetryAfter(secs) <= 0
    /\ retryAttempts < MaxAttempts
    /\ backoff' \in HalfJitter(CappedDelay)
    /\ retryAttempts' = retryAttempts + 1
    /\ asleep' = TRUE
    /\ Remember("failure")
    /\ UNCHANGED successesSinceFail

\* Slip: the attempt is counted before its delay is computed.
FailureCountsFirst ==
    /\ ~asleep
    /\ \E secs \in RetryAfterSecs : RetryAfter(secs) <= 0
    /\ retryAttempts < MaxAttempts
    /\ retryAttempts' = retryAttempts + 1
    /\ backoff' \in HalfJitter(CappedDelay')
    /\ successesSinceFail' = 0
    /\ asleep' = TRUE
    /\ Remember("failure")

\* Any other failure: exponential back-off with jitter.
FailureExponential ==
    /\ ~asleep
    /\ \E secs \in RetryAfterSecs : RetryAfter(secs) <= 0
    /\ retryAttempts < MaxAttempts
    /\ backoff' \in HalfJitter(CappedDelay)
    /\ retryAttempts' = retryAttempts + 1
    /\ successesSinceFail' = 0
    /\ asleep' = TRUE
    /\ Remember("failure")

Wake ==
    /\ asleep
    /\ asleep' = FALSE
    /\ UNCHANGED <<retryAttempts, successesSinceFail, backoff, recent>>

Next == Success \/ Disabled \/ FailureRetryAfter \/ FailureExponential \/ Wake

Spec == Init /\ [][Next]_vars

-----------------------------------------------------------------------------
(* Properties                                                               *)

\* Every variable has its type; the success streak is used up at three
\* (hub.go:391-396).
TypeOK ==
    /\ retryAttempts \in 0 .. MaxAttempts
    /\ successesSinceFail \in 0 .. 2
    /\ backoff \in Int
    /\ asleep \in BOOLEAN
    /\ recent \in Seq(Outcomes) /\ Len(recent) <= 3

\* No gateway answer and no number of failures makes the loop sleep longer than
\* a minute (hub.go:30-31, 421-436, 483-488).
BackoffCapped == backoff <= maxRetryBackoff

\* The sleep the comment of hub.go:429 announces for the n-th failure:
\* "1s, 2s, 4s, 8s, 16s, 32s, 60s, 60s, ...", in unbounded arithmetic.
Scheduled(n) ==
    LET delay == minRetryBackoff * 2 ^ (n - 1)
    IN  IF delay > maxRetryBackoff THEN maxRetryBackoff ELSE delay

\* After the n-th failure without a Retry-After since the last reset the loop
\* sleeps between half and all of what the schedule says (hub.go:429-437).
BackoffFollowsSchedule ==
    asleep /\ Last(recent) = "failure"
        => /\ 2 * backoff >= Scheduled(retryAttempts) - 1
           /\ backoff <= Scheduled(retryAttempts)

\* "Only fully reset backoff after 3 consecutive successes (guards against
\* flakiness)" (hub.go:392), or on a 412 (hub.go:410-411): a flaky gateway
\* that lets every other attempt through does not bring the sleep down.
ResetIsEarned ==
    [][retryAttempts' < retryAttempts
           => \/ Last(recent') = "disabled"
              \/ recent' = <<"success", "success", "success">>]_vars

\* Until the cap is reached, a failure right after a failure is never followed
\* by a shorter sleep, in spite of the jitter (hub.go:430-437).
BackoffGrows ==
    [][(/\ recent # <<>>
        /\ Last(recent) = "failure"
        /\ ~asleep /\ asleep'
        /\ Last(recent') = "failure"
        /\ Scheduled(retryAttempts') < maxRetryBackoff)
       => backoff' >= backoff]_vars
=============================================================================
