------------------------- MODULE SubmitBackoffProofs -------------------------
(***************************************************************************)
(* SubmitBackoff, for words of any width, any Retry-After values and any   *)
(* number of failures: the sleep stays under its cap, and the back-off is  *)
(* reset by nothing but a 412 or three successes in a row. As long as the  *)
(* shifted delay fits the word, the sleep follows its schedule and grows;  *)
(* with the constants of the code that is for 34 failures in a row, and    *)
(* from the 56th on no pause is left.                                      *)
(***************************************************************************)
EXTENDS SubmitBackoff, CountingLemmas

-----------------------------------------------------------------------------
(* The arithmetic of a delay                                                *)

\* A wrapped product is an integer again, whatever was multiplied.
LEMMA WordType ==
    ASSUME NEW n \in Int
    PROVE  Word(n) \in Int
  <1>1. HalfWord \in Int /\ 2 * HalfWord \in Int /\ 2 * HalfWord > 0
    BY SubmitBackoffAssumption
  <1>2. n + HalfWord \in Int
    BY <1>1
  <1>3. (n + HalfWord) % (2 * HalfWord) \in Int
    BY <1>1, <1>2
  <1> QED
    BY <1>1, <1>3 DEF Word

\* The cap holds for a product that has left the word as well.
LEMMA DelayCapped ==
    ASSUME retryAttempts \in Nat
    PROVE  CappedDelay \in Int /\ CappedDelay <= maxRetryBackoff
  <1>1. 2 ^ retryAttempts \in Int
    BY PowerOfTwo
  <1>2. Second * 2 ^ retryAttempts \in Int
    BY <1>1, SubmitBackoffAssumption
  <1>3. ShiftedDelay \in Int
    BY <1>2, WordType DEF ShiftedDelay, minRetryBackoff
  <1>4. maxRetryBackoff \in Int
    BY SubmitBackoffAssumption DEF maxRetryBackoff
  <1> QED
    BY <1>3, <1>4 DEF CappedDelay

\* Jitter takes a delay nowhere above what it was, if that was under the cap.
LEMMA JitterCapped ==
    ASSUME NEW delay \in Int, delay <= maxRetryBackoff,
           NEW sleep \in HalfJitter(delay)
    PROVE  sleep \in Int /\ sleep <= maxRetryBackoff
  <1>1. PICK j \in Jitter(delay \div 2) : sleep = (delay \div 2) + j
    BY DEF HalfJitter
  <1>2. delay \div 2 \in Int /\ 2 * (delay \div 2) <= delay
    OBVIOUS
  <1>3. maxRetryBackoff \in Nat
    BY SubmitBackoffAssumption DEF maxRetryBackoff
  <1>4. CASE delay \div 2 <= 0
    <2>1. j = 0
      BY <1>1, <1>4 DEF Jitter
    <2> QED
      BY <1>1, <1>2, <1>3, <1>4, <2>1
  <1>5. CASE delay \div 2 > 0
    <2>1. j \in 0 .. (delay \div 2) - 1
      BY <1>1, <1>2, <1>5 DEF Jitter
    <2> QED
      BY <1>1, <1>2, <1>3, <2>1
  <1> QED
    BY <1>2, <1>4, <1>5

\* The same for a Retry-After.
LEMMA RetryAfterCapped ==
    ASSUME NEW secs \in RetryAfterSecs
    PROVE  RetryAfter(secs) \in Int /\ RetryAfter(secs) <= maxRetryBackoff
  <1>1. secs * Second \in Int
    BY SubmitBackoffAssumption
  <1>2. Word(secs * Second) \in Int
    BY <1>1, WordType
  <1>3. 60 * Second \in Int
    BY SubmitBackoffAssumption
  <1> QED
    BY <1>2, <1>3 DEF RetryAfter, MaxRetryAfter, maxRetryBackoff

-----------------------------------------------------------------------------
(* The inductive invariant                                                  *)

\* The streak counts successes at the end of what is remembered.
Streak ==
    /\ successesSinceFail >= 1 =>
           Len(recent) >= 1 /\ recent[Len(recent)] = "success"
    /\ successesSinceFail >= 2 =>
           Len(recent) >= 2 /\ recent[Len(recent) - 1] = "success"

Inv == TypeOK /\ BackoffCapped /\ Streak

\* What Remember does to the sequence, element by element.
LEMMA Remembered ==
    ASSUME recent \in Seq(Outcomes), Len(recent) <= 3,
           NEW o \in Outcomes, Remember(o)
    PROVE  /\ recent' \in Seq(Outcomes)
           /\ Len(recent') = IF Len(recent) < 3 THEN Len(recent) + 1 ELSE 3
           /\ recent'[Len(recent')] = o
           /\ \A k \in 1 .. 2 : k <= Len(recent) =>
                  recent'[Len(recent') - k] = recent[Len(recent) + 1 - k]
  <1>1. CASE Len(recent) < 3
    <2>1. recent' = Append(recent, o)
      BY <1>1 DEF Remember
    <2> QED
      BY <1>1, <2>1
  <1>2. CASE Len(recent) = 3
    <2>1. recent' = Append(Tail(recent), o)
      BY <1>2 DEF Remember
    <2>2. Tail(recent) \in Seq(Outcomes) /\ Len(Tail(recent)) = 2
      BY <1>2
    <2>3. Tail(recent)[1] = recent[2] /\ Tail(recent)[2] = recent[3]
      <3>1. recent # <<>>
        BY <1>2
      <3>2. \A i \in 1 .. Len(Tail(recent)) : Tail(recent)[i] = recent[i + 1]
        BY <3>1, HeadTailProperties
      <3> QED
        BY <2>2, <3>2
    <2>4. /\ recent' \in Seq(Outcomes) /\ Len(recent') = 3 /\ recent'[3] = o
          /\ recent'[1] = recent[2] /\ recent'[2] = recent[3]
      <3>1. PICK t \in Seq(Outcomes) : t = Tail(recent)
        BY <2>2
      <3>2. /\ recent' \in Seq(Outcomes) /\ Len(recent') = 3 /\ recent'[3] = o
            /\ recent'[1] = t[1] /\ recent'[2] = t[2]
        <4>1. /\ recent' \in Seq(Outcomes) /\ Len(recent') = Len(t) + 1
              /\ \A i \in 1 .. Len(t) : recent'[i] = t[i]
              /\ recent'[Len(t) + 1] = o
          BY <2>1, <3>1
        <4>2. Len(t) = 2
          BY <2>2, <3>1
        <4>3. 1 \in 1 .. Len(t) /\ 2 \in 1 .. Len(t) /\ Len(t) + 1 = 3
          BY <4>2
        <4> QED
          BY <4>1, <4>3, Zenon
      <3> QED
        BY <2>3, <3>1, <3>2
    <2>5. \A k \in 1 .. 2 : recent'[3 - k] = recent[4 - k]
      BY <2>4
    <2> QED
      BY <1>2, <2>4, <2>5
  <1> QED
    <2>1. PICK n \in Nat : n = Len(recent) /\ n <= 3
      BY LenProperties
    <2>2. n < 3 \/ n = 3
      BY <2>1
    <2> QED
      BY <1>1, <1>2, <2>1, <2>2, Zenon

\* The invariant holds initially.
LEMMA InitInv == Init => Inv
  <1> SUFFICES ASSUME Init PROVE Inv
    OBVIOUS
  <1>1. maxRetryBackoff \in Nat
    BY SubmitBackoffAssumption DEF maxRetryBackoff
  <1>2. recent \in Seq(Outcomes) /\ Len(recent) = 0
    BY DEF Init
  <1>3. TypeOK
    <2>0. MaxAttempts \in Nat
      BY SubmitBackoffAssumption
    <2>1. /\ retryAttempts \in 0 .. MaxAttempts /\ successesSinceFail \in 0 .. 2
          /\ backoff \in Int
      BY <2>0 DEF Init
    <2>3. asleep \in BOOLEAN
      BY DEF Init
    <2>2. Len(recent) <= 3
      BY <1>2
    <2> QED
      BY <1>2, <2>1, <2>2, <2>3 DEF TypeOK
  <1> QED
    BY <1>1, <1>3 DEF Init, Inv, BackoffCapped, Streak

\* What every attempt keeps.
LEMMA AttemptKeeps ==
    ASSUME Inv, NEW o \in Outcomes, Remember(o)
    PROVE  recent' \in Seq(Outcomes) /\ Len(recent') <= 3
  <1>1. Len(recent) \in Nat /\ Len(recent) <= 3
    BY DEF Inv, TypeOK
  <1> QED
    BY <1>1, Remembered DEF Inv, TypeOK

\* The invariant is inductive.
LEMMA StepInv == Inv /\ [Next]_vars => Inv'
  <1> SUFFICES ASSUME Inv, [Next]_vars PROVE Inv'
    OBVIOUS
  <1> USE DEF Inv
  <1>0. maxRetryBackoff' = maxRetryBackoff
    BY DEF maxRetryBackoff
  <1>1. CASE Success
    <2>1. Remember("success") /\ "success" \in Outcomes
      BY <1>1 DEF Success, Outcomes
    <2>2. TypeOK'
      <3>1. recent' \in Seq(Outcomes) /\ Len(recent') <= 3
        BY <2>1, AttemptKeeps
      <3>2. retryAttempts' \in 0 .. MaxAttempts /\ successesSinceFail' \in 0 .. 2
        BY <1>1, SubmitBackoffAssumption DEF Success, TypeOK
      <3> QED
        BY <1>1, <3>1, <3>2 DEF Success, TypeOK
    <2>3. BackoffCapped'
      BY <1>0, <1>1 DEF Success, BackoffCapped
    <2>4. Streak'
      <3>1. /\ Len(recent') = IF Len(recent) < 3 THEN Len(recent) + 1 ELSE 3
            /\ recent'[Len(recent')] = "success"
            /\ 1 <= Len(recent) => recent'[Len(recent') - 1] = recent[Len(recent)]
        BY <2>1, Remembered DEF TypeOK
      <3>2. Len(recent) \in Nat /\ successesSinceFail \in 0 .. 2
        BY DEF TypeOK
      <3>3. successesSinceFail' >= 2 => successesSinceFail >= 1
        BY <1>1, <3>2 DEF Success
      <3> QED
        BY <3>1, <3>2, <3>3 DEF Streak
    <2> QED
      BY <2>2, <2>3, <2>4
  <1>2. CASE Disabled
    <2>1. Remember("disabled") /\ "disabled" \in Outcomes
      BY <1>2 DEF Disabled, Outcomes
    <2>2. TypeOK'
      BY <1>2, <2>1, AttemptKeeps, SubmitBackoffAssumption DEF Disabled, TypeOK
    <2> QED
      BY <1>0, <1>2, <2>2 DEF Disabled, BackoffCapped, Streak
  <1>3. CASE FailureRetryAfter
    <2>1. Remember("retry-after") /\ "retry-after" \in Outcomes
      BY <1>3 DEF FailureRetryAfter, Outcomes
    <2>2. backoff' \in Int /\ backoff' <= maxRetryBackoff
      BY <1>3, RetryAfterCapped DEF FailureRetryAfter
    <2>3. TypeOK'
      BY <1>3, <2>1, <2>2, AttemptKeeps DEF FailureRetryAfter, TypeOK
    <2> QED
      BY <1>0, <1>3, <2>2, <2>3 DEF FailureRetryAfter, BackoffCapped, Streak
  <1>4. CASE FailureExponential
    <2>1. Remember("failure") /\ "failure" \in Outcomes
      BY <1>4 DEF FailureExponential, Outcomes
    <2>2. CappedDelay \in Int /\ CappedDelay <= maxRetryBackoff
      BY DelayCapped DEF TypeOK
    <2>3. backoff' \in Int /\ backoff' <= maxRetryBackoff
      BY <1>4, <2>2, JitterCapped DEF FailureExponential
    <2>4. TypeOK'
      BY <1>4, <2>1, <2>3, AttemptKeeps, SubmitBackoffAssumption
      DEF FailureExponential, TypeOK
    <2> QED
      BY <1>0, <1>4, <2>3, <2>4 DEF FailureExponential, BackoffCapped, Streak
  <1>5. CASE Wake \/ UNCHANGED vars
    BY <1>0, <1>5 DEF Wake, vars, TypeOK, BackoffCapped, Streak
  <1> QED
    BY <1>1, <1>2, <1>3, <1>4, <1>5 DEF Next

\* Inv is an invariant of the specification.
LEMMA Invariance == Spec => []Inv
  BY InitInv, StepInv, PTL DEF Spec

-----------------------------------------------------------------------------
(* Theorems                                                                 *)

\* Every variable has its type; the success streak is used up at three
\* (hub.go:391-396).
THEOREM TypeCorrect == Spec => []TypeOK
  BY Invariance, PTL DEF Inv

\* No sleep is longer than a minute, also when a product has left the word
\* (hub.go:30-31, 421-436, 483-488).
THEOREM SleepIsCapped == Spec => []BackoffCapped
  BY Invariance, PTL DEF Inv

\* Attempts are forgotten on a 412 or after three successes in a row, never
\* earlier (hub.go:390-396, 410-411).
THEOREM ResetNeedsSuccess == Spec => ResetIsEarned
  <1>1. Inv /\ [Next]_vars =>
            [retryAttempts' < retryAttempts
                 => \/ Last(recent') = "disabled"
                    \/ recent' = <<"success", "success", "success">>]_vars
    <2> SUFFICES ASSUME Inv, Next, retryAttempts' < retryAttempts
                 PROVE  \/ Last(recent') = "disabled"
                        \/ recent' = <<"success", "success", "success">>
      OBVIOUS
    <2>1. retryAttempts \in Nat /\ Len(recent) \in Nat /\ successesSinceFail \in 0 .. 2
      BY DEF Inv, TypeOK
    <2>2. CASE Success
      <3>1. successesSinceFail = 2
        BY <2>1, <2>2 DEF Success
      <3>2. Remember("success") /\ "success" \in Outcomes
        BY <2>2 DEF Success, Outcomes
      <3>3. /\ Len(recent) >= 2 /\ Len(recent) <= 3
            /\ recent[Len(recent)] = "success" /\ recent[Len(recent) - 1] = "success"
        BY <3>1 DEF Inv, Streak, TypeOK
      <3>4. /\ recent' \in Seq(Outcomes)
            /\ Len(recent') = IF Len(recent) < 3 THEN Len(recent) + 1 ELSE 3
            /\ recent'[Len(recent')] = "success"
            /\ \A k \in 1 .. 2 : k <= Len(recent) =>
                   recent'[Len(recent') - k] = recent[Len(recent) + 1 - k]
        BY <3>2, Remembered DEF Inv, TypeOK
      <3>5. /\ Len(recent') = 3 /\ recent'[3] = "success"
            /\ recent'[2] = "success" /\ recent'[1] = "success"
        BY <2>1, <3>3, <3>4
      <3> QED
        BY <3>4, <3>5
    <2>3. CASE Disabled
      <3>1. Remember("disabled") /\ "disabled" \in Outcomes
        BY <2>3 DEF Disabled, Outcomes
      <3>2. recent'[Len(recent')] = "disabled"
        BY <3>1, Remembered DEF Inv, TypeOK
      <3> QED
        BY <3>2 DEF Last
    <2>4. CASE FailureRetryAfter \/ FailureExponential \/ Wake
      BY <2>1, <2>4 DEF FailureRetryAfter, FailureExponential, Wake
    <2> QED
      BY <2>2, <2>3, <2>4 DEF Next
  <1> QED
    BY <1>1, Invariance, PTL DEF Spec, ResetIsEarned

-----------------------------------------------------------------------------
(* The schedule                                                             *)

\* No delay that MaxAttempts failures ask for leaves the word.
NoOverflow == MaxAttempts # 0 => Second * 2 ^ (MaxAttempts - 1) < HalfWord

\* What fits a word is not changed by it.
LEMMA WordFits ==
    ASSUME NEW n \in Nat, n < HalfWord
    PROVE  Word(n) = n
  <1>1. HalfWord \in Nat /\ n + HalfWord \in 0 .. (2 * HalfWord) - 1
    BY SubmitBackoffAssumption
  <1>2. (n + HalfWord) % (2 * HalfWord) = n + HalfWord
    BY <1>1
  <1> QED
    BY <1>1, <1>2 DEF Word

\* The delay before jitter is the announced one.
LEMMA DelayScheduled ==
    ASSUME NoOverflow, retryAttempts \in 0 .. MaxAttempts - 1
    PROVE  CappedDelay = Scheduled(retryAttempts + 1) /\ CappedDelay \in Nat
  <1>1. /\ retryAttempts \in Nat /\ MaxAttempts \in Nat /\ MaxAttempts - 1 \in Nat
        /\ retryAttempts <= MaxAttempts - 1 /\ MaxAttempts # 0
        /\ (retryAttempts + 1) - 1 = retryAttempts
    BY SubmitBackoffAssumption
  <1>2. Second \in Nat \ {0} /\ HalfWord \in Nat
    BY SubmitBackoffAssumption
  <1>3. 2 ^ retryAttempts <= 2 ^ (MaxAttempts - 1)
        /\ 2 ^ retryAttempts \in Nat /\ 2 ^ (MaxAttempts - 1) \in Nat
    BY <1>1, PowerGrows, PowerOfTwo
  <1>4. Second * 2 ^ (MaxAttempts - 1) < HalfWord
    BY <1>1 DEF NoOverflow
  <1>5. Second * 2 ^ retryAttempts \in Nat /\ Second * 2 ^ retryAttempts < HalfWord
    <2>1. PICK a \in Nat, b \in Nat : a = 2 ^ retryAttempts /\ b = 2 ^ (MaxAttempts - 1)
      BY <1>3
    <2>2. PICK p \in Nat, q \in Nat : p = Second * a /\ q = Second * b
      BY <1>2, ProductNat
    <2>3. a <= b
      BY <1>3, <2>1
    <2>4. p <= q
      BY <1>2, <2>2, <2>3, ProductGrows, Zenon
    <2>5. q < HalfWord
      BY <1>4, <2>1, <2>2, Zenon
    <2>6. p < HalfWord
      BY <1>2, <2>4, <2>5
    <2> QED
      BY <2>1, <2>2, <2>6, Zenon
  <1>6. ShiftedDelay = Second * 2 ^ retryAttempts
    BY <1>5, WordFits DEF ShiftedDelay, minRetryBackoff
  <1>7. Scheduled(retryAttempts + 1) = CappedDelay
    BY <1>1, <1>6 DEF Scheduled, CappedDelay, minRetryBackoff
  <1>8. maxRetryBackoff \in Nat
    BY <1>2 DEF maxRetryBackoff
  <1> QED
    BY <1>5, <1>6, <1>7, <1>8 DEF CappedDelay

\* Jitter leaves half of a delay, rounded down, and adds less than the rest.
LEMMA JitterRange ==
    ASSUME NEW delay \in Nat, NEW sleep \in HalfJitter(delay)
    PROVE  sleep \in Int /\ delay \div 2 <= sleep /\ sleep <= delay
  <1>1. PICK j \in Jitter(delay \div 2) : sleep = (delay \div 2) + j
    BY DEF HalfJitter
  <1>2. delay \div 2 \in Nat /\ 2 * (delay \div 2) <= delay
    OBVIOUS
  <1>3. j \in Nat /\ j <= delay \div 2
    <2>1. CASE delay \div 2 <= 0
      BY <1>1, <1>2, <2>1 DEF Jitter
    <2>2. CASE ~(delay \div 2 <= 0)
      <3>1. j \in 0 .. (delay \div 2) - 1
        BY <1>1, <2>2 DEF Jitter
      <3> QED
        BY <1>2, <3>1
    <2> QED
      BY <2>1, <2>2
  <1> QED
    BY <1>1, <1>2, <1>3

\* While a failure is the latest outcome, asleep or not, backoff is the sleep
\* that its delay allows; it was the failure that retryAttempts counts last.
FailureSlept ==
    recent # <<>> /\ Last(recent) = "failure"
        => /\ retryAttempts >= 1
           /\ Scheduled(retryAttempts) \in Nat
           /\ Scheduled(retryAttempts) \div 2 <= backoff
           /\ backoff <= Scheduled(retryAttempts)

\* The loop is asleep only after some outcome.
AsleepAfter == asleep => recent # <<>>

LEMMA RememberedLast ==
    ASSUME Inv, NEW o \in Outcomes, Remember(o)
    PROVE  recent' # <<>> /\ Last(recent') = o
  <1>1. /\ recent' \in Seq(Outcomes)
        /\ Len(recent') = IF Len(recent) < 3 THEN Len(recent) + 1 ELSE 3
        /\ recent'[Len(recent')] = o
    BY Remembered DEF Inv, TypeOK
  <1>2. Len(recent) \in Nat
    BY DEF Inv, TypeOK
  <1>3. Len(recent') # 0
    BY <1>1, <1>2
  <1> QED
    BY <1>1, <1>3, EmptySeq DEF Last

LEMMA ScheduleStep ==
    ASSUME NoOverflow
    PROVE  Inv /\ FailureSlept /\ AsleepAfter /\ [Next]_vars
               => FailureSlept' /\ AsleepAfter'
  <1> SUFFICES ASSUME Inv, FailureSlept, AsleepAfter, [Next]_vars
               PROVE  FailureSlept' /\ AsleepAfter'
    OBVIOUS
  <1>1. CASE Success \/ Disabled \/ FailureRetryAfter
    <2>1. PICK o \in {"success", "disabled", "retry-after"} : Remember(o)
      BY <1>1 DEF Success, Disabled, FailureRetryAfter
    <2>2. recent' # <<>> /\ Last(recent') = o
      BY <2>1, RememberedLast DEF Outcomes
    <2> QED
      BY <2>2 DEF FailureSlept, AsleepAfter
  <1>2. CASE FailureExponential
    <2>1. Remember("failure") /\ "failure" \in Outcomes
      BY <1>2 DEF FailureExponential, Outcomes
    <2>2. retryAttempts' = retryAttempts + 1 /\ retryAttempts \in 0 .. MaxAttempts - 1
      BY <1>2, SubmitBackoffAssumption DEF FailureExponential, Inv, TypeOK
    <2>3. backoff' \in HalfJitter(CappedDelay)
      BY <1>2 DEF FailureExponential
    <2>4. CappedDelay = Scheduled(retryAttempts + 1) /\ CappedDelay \in Nat
      BY <2>2, DelayScheduled
    <2>5. CappedDelay \div 2 <= backoff' /\ backoff' <= CappedDelay
      BY <2>3, <2>4, JitterRange
    <2>6. Scheduled(retryAttempts') = CappedDelay
      BY <2>2, <2>4
    <2>7. retryAttempts' >= 1
      BY <2>2
    <2>8. recent' # <<>>
      BY <2>1, RememberedLast
    <2>9. Scheduled(retryAttempts)' = Scheduled(retryAttempts')
      BY DEF Scheduled, minRetryBackoff, maxRetryBackoff
    <2> QED
      BY <2>4, <2>5, <2>6, <2>7, <2>8, <2>9 DEF FailureSlept, AsleepAfter
  <1>3. CASE Wake \/ UNCHANGED vars
    BY <1>3 DEF Wake, vars, FailureSlept, AsleepAfter, Scheduled, minRetryBackoff,
       maxRetryBackoff
  <1> QED
    BY <1>1, <1>2, <1>3 DEF Next

LEMMA ScheduleInit == Init => FailureSlept /\ AsleepAfter
  BY DEF Init, FailureSlept, AsleepAfter

\* After the n-th failure since the last reset the loop sleeps between half and
\* all of "1s, 2s, 4s, 8s, 16s, 32s, 60s, 60s, ...", for as many failures in a
\* row as the word has room for: 34 of them in the code (hub.go:429-437).
THEOREM SleepFollowsSchedule ==
    ASSUME NoOverflow
    PROVE  Spec => []BackoffFollowsSchedule
  <1>1. Inv /\ FailureSlept /\ AsleepAfter => BackoffFollowsSchedule
    <2> SUFFICES ASSUME Inv, FailureSlept, AsleepAfter, asleep, Last(recent) = "failure"
                 PROVE  /\ 2 * backoff >= Scheduled(retryAttempts) - 1
                        /\ backoff <= Scheduled(retryAttempts)
      BY DEF BackoffFollowsSchedule
    <2>1. PICK d \in Nat : d = Scheduled(retryAttempts)
      BY DEF FailureSlept, AsleepAfter
    <2>2. d \div 2 <= backoff /\ backoff <= d /\ backoff \in Int
      BY <2>1 DEF FailureSlept, AsleepAfter, Inv, TypeOK
    <2>3. 2 * (d \div 2) >= d - 1
      BY <2>1
    <2> QED
      BY <2>1, <2>2, <2>3
  <1> QED
    BY <1>1, ScheduleInit, ScheduleStep, Invariance, PTL DEF Spec

\* The smallest sleep of a delay below the cap is the largest of the one before.
LEMMA HalfIsPrevious ==
    ASSUME NEW n \in Nat \ {0}, Scheduled(n + 1) < maxRetryBackoff
    PROVE  Scheduled(n + 1) \div 2 = Scheduled(n)
  <1>1. /\ n - 1 \in Nat /\ (n - 1) + 1 = n /\ (n + 1) - 1 = n
        /\ Second \in Nat \ {0} /\ maxRetryBackoff \in Nat
    BY SubmitBackoffAssumption DEF maxRetryBackoff
  <1>2. 2 ^ (n - 1) \in Nat /\ 2 ^ n = 2 * 2 ^ (n - 1)
    <2>1. 2 ^ ((n - 1) + 1) = 2 * 2 ^ (n - 1)
      BY <1>1, PowerDoubles
    <2> QED
      BY <1>1, <2>1, PowerOfTwo
  <1>3. PICK d \in Nat : d = Second * 2 ^ (n - 1)
    BY <1>1, <1>2, ProductNat
  <1>4. Second * 2 ^ n = 2 * d
    <2>1. \A a, b \in Nat : a * (2 * b) = 2 * (a * b)
      BY SMTT(30)
    <2>2. PICK e \in Nat : e = 2 ^ (n - 1)
      BY <1>2
    <2>3. Second * (2 * e) = 2 * (Second * e)
      BY <1>1, <2>1
    <2> QED
      BY <1>2, <1>3, <2>2, <2>3, Zenon
  <1>5. Scheduled(n + 1) = IF 2 * d > maxRetryBackoff THEN maxRetryBackoff ELSE 2 * d
    BY <1>1, <1>4 DEF Scheduled, minRetryBackoff
  <1>6. Scheduled(n) = IF d > maxRetryBackoff THEN maxRetryBackoff ELSE d
    BY <1>3 DEF Scheduled, minRetryBackoff
  <1>7. 2 * d < maxRetryBackoff /\ Scheduled(n + 1) = 2 * d
    BY <1>1, <1>5
  <1>8. Scheduled(n) = d
    BY <1>1, <1>6, <1>7
  <1> QED
    BY <1>7, <1>8

\* Below the cap, a failure right after a failure sleeps at least as long, in
\* spite of the jitter (hub.go:430-437).
THEOREM SleepGrows ==
    ASSUME NoOverflow
    PROVE  Spec => BackoffGrows
  <1>1. Inv /\ FailureSlept /\ [Next]_vars =>
            [(/\ recent # <<>>
              /\ Last(recent) = "failure"
              /\ ~asleep /\ asleep'
              /\ Last(recent') = "failure"
              /\ Scheduled(retryAttempts') < maxRetryBackoff)
             => backoff' >= backoff]_vars
    <2> SUFFICES ASSUME Inv, FailureSlept, Next,
                        recent # <<>>, Last(recent) = "failure", ~asleep, asleep',
                        Last(recent') = "failure",
                        Scheduled(retryAttempts') < maxRetryBackoff
                 PROVE  backoff' >= backoff
      OBVIOUS
    <2>1. FailureExponential
      <3>1. FailureRetryAfter => Last(recent') = "retry-after"
        BY RememberedLast DEF FailureRetryAfter, Outcomes
      <3> QED
        BY <3>1 DEF Next, Success, Disabled, Wake
    <2>2. /\ retryAttempts' = retryAttempts + 1 /\ retryAttempts \in 0 .. MaxAttempts - 1
          /\ backoff' \in HalfJitter(CappedDelay)
      BY <2>1, SubmitBackoffAssumption DEF FailureExponential, Inv, TypeOK
    <2>3. retryAttempts \in Nat \ {0} /\ backoff <= Scheduled(retryAttempts)
          /\ Scheduled(retryAttempts) \in Nat /\ backoff \in Int
      BY <2>2 DEF FailureSlept, Inv, TypeOK
    <2>4. CappedDelay = Scheduled(retryAttempts + 1) /\ CappedDelay \in Nat
      BY <2>2, DelayScheduled
    <2>5. CappedDelay \div 2 <= backoff' /\ backoff' \in Int
      BY <2>2, <2>4, JitterRange
    <2>6. CappedDelay \div 2 = Scheduled(retryAttempts)
      BY <2>2, <2>3, <2>4, HalfIsPrevious
    <2> QED
      BY <2>3, <2>5, <2>6
  <1> QED
    BY <1>1, ScheduleInit, ScheduleStep, Invariance, PTL DEF Spec, BackoffGrows

-----------------------------------------------------------------------------
(* With the constants of the code                                           *)

\* A time.Duration is an int64 that counts nanoseconds. 2^63 is 8 * Giga * Giga;
\* Giga stays folded in every step about the product, because the prover computes
\* with literals of less than 63 bits.
Giga == 1024 * 1024 * 1024
CodeConstants == Second = 1000 * 1000 * 1000 /\ HalfWord = 8 * (Giga * Giga)

LEMMA BetweenDoubles ==
    ASSUME NEW s \in Nat, NEW g \in Nat, s < g, g < 2 * s
    PROVE  s * (8 * g) < 8 * (g * g) /\ 8 * (g * g) <= s * (2 * (8 * g))
  <1>1. PICK u \in Nat, v \in Nat : u = g * s /\ v = g * g
    BY ProductNat
  <1>2. /\ \A x, y \in Nat : x * (8 * y) = 8 * (y * x) /\ x * (2 * (8 * y)) = 16 * (y * x)
        /\ \A x, y \in Nat : y * (x + 1) = y * x + y /\ y * (2 * x) = 2 * (y * x)
    BY SMTT(30)
  <1>3. /\ s * (8 * g) = 8 * u /\ s * (2 * (8 * g)) = 16 * u
        /\ g * (s + 1) = u + g /\ g * (2 * s) = 2 * u
    BY <1>1, <1>2, Zenon
  <1>4. g * (s + 1) <= g * g /\ g * g <= g * (2 * s)
    BY ProductGrows
  <1>5. u + g <= v /\ v <= 2 * u
    BY <1>1, <1>3, <1>4, Zenon
  <1>6. 8 * u < 8 * v /\ 8 * v <= 16 * u
    BY <1>5
  <1> QED
    BY <1>1, <1>3, <1>6, Zenon

\* The delay of the 34th failure in a row fits the word, the next one does not.
LEMMA DurationWidth ==
    ASSUME CodeConstants, NEW n \in Nat, n = 33
    PROVE  Second * 2 ^ n < HalfWord /\ HalfWord <= Second * 2 ^ (n + 1)
  <1>1. PICK m \in Nat : m = 0 /\ n = (((m + 10) + 10) + 10) + 1 + 1 + 1
    OBVIOUS
  <1>2. 2 ^ m = 1
    BY <1>1, PowerOfNone
  <1>3. /\ 2 ^ (m + 10) = 1024 * 2 ^ m
        /\ 2 ^ ((m + 10) + 10) = 1024 * 2 ^ (m + 10)
        /\ 2 ^ (((m + 10) + 10) + 10) = 1024 * 2 ^ ((m + 10) + 10)
    BY PowerTen
  <1>4. 2 ^ (((m + 10) + 10) + 10) = Giga
    BY <1>2, <1>3 DEF Giga
  <1>5. PICK k \in Nat : k = ((m + 10) + 10) + 10
    OBVIOUS
  <1>6. n = k + 1 + 1 + 1 /\ 2 ^ k = Giga
    BY <1>1, <1>4, <1>5
  <1>7. /\ 2 ^ (k + 1) = 2 * 2 ^ k
        /\ 2 ^ (k + 1 + 1) = 2 * 2 ^ (k + 1)
        /\ 2 ^ (k + 1 + 1 + 1) = 2 * 2 ^ (k + 1 + 1)
    BY PowerDoubles
  <1>8. 2 ^ n = 8 * Giga /\ 2 ^ (n + 1) = 2 * 2 ^ n
    BY <1>6, <1>7, PowerDoubles DEF Giga
  <1>9. Second \in Nat /\ Giga \in Nat /\ Second < Giga /\ Giga < 2 * Second
    <2>1. Second = 1000 * 1000 * 1000
      BY DEF CodeConstants
    <2> QED
      BY <2>1 DEF Giga
  <1>10. /\ Second * (8 * Giga) < 8 * (Giga * Giga)
         /\ 8 * (Giga * Giga) <= Second * (2 * (8 * Giga))
    BY <1>9, BetweenDoubles
  <1>11. 2 ^ (n + 1) = 2 * (8 * Giga)
    BY <1>8, Zenon
  <1>12. HalfWord = 8 * (Giga * Giga)
    BY Zenon DEF CodeConstants
  <1> QED
    BY <1>8, <1>10, <1>11, <1>12, Zenon

\* The schedule of the comment at hub.go:429 holds for exactly 34 failures in a
\* row: NoOverflow, which SleepFollowsSchedule and SleepGrows assume, is no more
\* than that (hub.go:430).
THEOREM RoomForSchedule ==
    ASSUME CodeConstants
    PROVE  NoOverflow <=> MaxAttempts <= 34
  <1>1. MaxAttempts \in Nat /\ Second \in Nat
    BY SubmitBackoffAssumption
  <1>2. CASE MaxAttempts = 0
    BY <1>2 DEF NoOverflow
  <1>3. CASE MaxAttempts # 0
    <2>1. PICK k \in Nat : k = MaxAttempts - 1
      BY <1>1, <1>3
    <2>2. PICK n \in Nat, a \in Nat, b \in Nat, c \in Nat :
              n = 33 /\ a = 2 ^ k /\ b = 2 ^ n /\ c = 2 ^ (n + 1)
      <3>1. \A l \in Nat : 2 ^ l \in Nat
        BY PowerOfTwo
      <3>2. PICK n \in Nat : n = 33
        OBVIOUS
      <3> QED
        BY <3>1, <3>2
    <2>3. PICK x \in Nat, y \in Nat, z \in Nat :
              x = Second * a /\ y = Second * b /\ z = Second * c
      BY <1>1, ProductNat
    <2>4. y < HalfWord /\ HalfWord <= z /\ HalfWord \in Nat
      BY <2>2, <2>3, DurationWidth, SubmitBackoffAssumption
    <2>5. k <= 33 => x <= y
      BY <1>1, <2>2, <2>3, PowerGrows, ProductGrows
    <2>6. 34 <= k => z <= x
      <3>1. n + 1 \in Nat /\ n + 1 = 34
        BY <2>2
      <3>2. 34 <= k => c <= a
        BY <2>2, <3>1, PowerGrows
      <3> QED
        BY <1>1, <2>3, <3>2, ProductGrows
    <2>7. NoOverflow <=> x < HalfWord
      BY <1>3, <2>1, <2>2, <2>3 DEF NoOverflow
    <2>8. x < HalfWord <=> k <= 33
      BY <2>4, <2>5, <2>6
    <2> QED
      BY <1>1, <2>1, <2>7, <2>8
  <1> QED
    BY <1>2, <1>3

\* 10^9 has nine factors of two, so that 55 more make it a multiple of 2^64.
LEMMA DelayVanishes ==
    ASSUME CodeConstants, retryAttempts \in Nat, retryAttempts >= 55
    PROVE  CappedDelay = 0
  <1>1. PICK m \in Nat : retryAttempts = (((((m + 10) + 10) + 10) + 10) + 10) + 5
    <2>1. retryAttempts - 55 \in Nat
      OBVIOUS
    <2> QED
      BY <2>1
  <1>2. PICK b \in Nat : b = 2 ^ m
    BY PowerOfTwo
  <1>3. /\ 2 ^ (m + 10) = 1024 * 2 ^ m
        /\ 2 ^ ((m + 10) + 10) = 1024 * 2 ^ (m + 10)
        /\ 2 ^ (((m + 10) + 10) + 10) = 1024 * 2 ^ ((m + 10) + 10)
        /\ 2 ^ ((((m + 10) + 10) + 10) + 10) = 1024 * 2 ^ (((m + 10) + 10) + 10)
        /\ 2 ^ (((((m + 10) + 10) + 10) + 10) + 10)
               = 1024 * 2 ^ ((((m + 10) + 10) + 10) + 10)
    BY PowerTen
  <1>4. 2 ^ ((((((m + 10) + 10) + 10) + 10) + 10) + 5)
            = 32 * 2 ^ (((((m + 10) + 10) + 10) + 10) + 10)
    BY PowerFive
  <1>5. PICK p \in Nat : p = 2 ^ retryAttempts
    BY PowerOfTwo
  <1>6. Second * p = (2 * HalfWord) * (1953125 * b)
    <2>1. p = 32 * (1024 * (1024 * (Giga * b)))
      BY <1>1, <1>2, <1>3, <1>4, <1>5 DEF Giga
    <2>2. HalfWord = 8 * ((1024 * 1024 * 1024) * Giga)
      BY Zenon DEF CodeConstants, Giga
    <2>3. Second = 512 * 1953125
      BY SMT DEF CodeConstants
    <2>4. Giga \in Nat
      BY DEF Giga
    <2> QED
      BY <2>1, <2>2, <2>3, <2>4, SMTT(30)
  <1>7. PICK q \in Nat : Second * 2 ^ retryAttempts = (2 * HalfWord) * q
    <2>1. 1953125 * b \in Nat
      BY SMT
    <2> QED
      BY <1>5, <1>6, <2>1, SMT
  <1>8. Word((2 * HalfWord) * q) = 0
    <2>1. 2 * HalfWord \in Nat \ {0} /\ HalfWord \in 0 .. 2 * HalfWord - 1
      BY SubmitBackoffAssumption
    <2>2. ((2 * HalfWord) * q + HalfWord) % (2 * HalfWord) = HalfWord
      BY <2>1, MultipleModulo
    <2> QED
      BY <2>1, <2>2 DEF Word
  <1>9. ShiftedDelay = 0
    BY <1>7, <1>8, Zenon DEF ShiftedDelay, minRetryBackoff
  <1>10. ~(0 > maxRetryBackoff)
    BY SubmitBackoffAssumption DEF maxRetryBackoff
  <1> QED
    BY <1>9, <1>10 DEF CappedDelay

\* Beyond the schedule it gets worse: from the 56th failure in a row on nothing
\* is left of the delay, and the loop repeats its requests without any pause
\* until something resets the counter (hub.go:430-437).
PauseLost == [][retryAttempts >= 55 /\ retryAttempts' > retryAttempts => backoff' = 0]_vars

THEOREM PauseVanishes ==
    ASSUME CodeConstants
    PROVE  Spec => PauseLost
  <1>1. Inv /\ [Next]_vars =>
            [retryAttempts >= 55 /\ retryAttempts' > retryAttempts => backoff' = 0]_vars
    <2> SUFFICES ASSUME Inv, Next, retryAttempts >= 55, retryAttempts' > retryAttempts
                 PROVE  backoff' = 0
      OBVIOUS
    <2>1. retryAttempts \in Nat
      BY SubmitBackoffAssumption DEF Inv, TypeOK
    <2>2. FailureExponential
      BY <2>1 DEF Next, Success, Disabled, FailureRetryAfter, Wake
    <2>3. backoff' \in HalfJitter(0)
      BY <2>1, <2>2, DelayVanishes DEF FailureExponential
    <2>4. 0 \div 2 = 0 /\ Jitter(0) = {0}
      BY DEF Jitter
    <2> QED
      BY <2>3, <2>4 DEF HalfJitter
  <1> QED
    BY <1>1, Invariance, PTL DEF Spec, PauseLost
=============================================================================
